---- MODULE Spec2Model ----
(***************************************************************************)
(* A model of crit-lines: the cycling physics (physics.py), the course     *)
(* simulator (simulator.py), the value objects they read (rider.py,        *)
(* bike.py, course.py), the track ingestion (gpx_parser.py) and the        *)
(* commands (interfaces/cli/main.py).                                      *)
(*                                                                         *)
(* The program computes with IEEE doubles.  The model computes with        *)
(* scaled integers, every quantity in a fixed unit:                        *)
(*   speed            mm/s            power            mW                  *)
(*   weight           0.1 kg          drag area        0.001 m^2           *)
(*   crr              0.0001          gradient         0.1 percent         *)
(*   distance         m               time             ms                  *)
(*   temperature      0.01 degC       pressure         0.01 hPa (= Pa)     *)
(*   angles           degrees         wind speed_kmh   0.1 km/h            *)
(* A product followed by a division is computed exactly (floor) by MulDiv  *)
(* or MulDivWide, so that no intermediate value leaves TLC's 32-bit        *)
(* integers.  An Optional value is the empty sequence (None) or a          *)
(* one-element sequence.                                                   *)
(***************************************************************************)
EXTENDS Integers, Sequences, FiniteSets, TLC

VARIABLES
    \* ---- the physics driver (PhysicsSpec) ----
    pmode,          \* "idle" | "solving" | "returned"
    inp,            \* the arguments of the physics call under study
    speed_guess,    \* calculate_speed_from_power: the local speed_guess
    iterations,     \* loop bodies of `for _ in range(50)` run so far
    exit_kind,      \* "none" | "converged" | "degenerate" | "cap"
    power_log,      \* calculate_power_required results seen: {[speed, power]}
    wind_out,       \* last estimate_wind_component call: <<>> or <<record>>
    \* ---- the simulator session (Spec) ----
    heap,           \* Rider objects by identity: id -> Rider record
    course,         \* the Course the session simulates
    conditions,     \* the CourseConditions of the session
    op,             \* the call in progress: "off" | "idle" | "simulate" | "compare"
                    \*   | "power" | "weight"
    seg_i,          \* simulate_course: index of the next segment (0-based)
    segment_results,\* simulate_course: the local list
    total_time,     \* simulate_course: the local accumulator
    total_power_time,
    outcome,        \* what the last finished call gave its caller: <<>> or <<record>>
    sweep,          \* the results list of a running compare_scenarios or
                    \*   analyze_*_impact: <<>> or <<[todo, results]>>
    call,           \* the arguments of the call in progress: <<>> or <<record>>
    \* ---- track ingestion (ParserSpec) ----
    parser,         \* a GPXParser and the call made on it: [pc, fn, file,
                    \*   min_segment_distance_m, course_points, i, segments, outcome]
    \* ---- the command line (CliSpec) ----
    cli,            \* one run of a command: [pc, argv, values, course, heap,
                    \*   results, stdout, stderr, exit_status, escaped]
    \* ---- a result being displayed (FormatSpec) ----
    shown           \* [total_time_seconds, text]: text is <<>> until
                    \*   total_time_formatted has been read

physics_vars == <<pmode, inp, speed_guess, iterations, exit_kind, power_log, wind_out>>
sim_vars == <<heap, course, conditions, op, seg_i, segment_results, total_time,
              total_power_time, outcome, sweep, call>>
front_vars == <<parser, cli, shown>>
vars == <<pmode, inp, speed_guess, iterations, exit_kind, power_log, wind_out,
          heap, course, conditions, op, seg_i, segment_results, total_time,
          total_power_time, outcome, sweep, call, parser, cli, shown>>

-----------------------------------------------------------------------------
(* Arithmetic of the fixed-point units *)

None == <<>>
Some(x) == <<x>>

Abs(x) == IF x < 0 THEN -x ELSE x
Max(a, b) == IF b > a THEN b ELSE a
Min(a, b) == IF b < a THEN b ELSE a

\* floor(a * b / c), exact, for 0 < c <= 46340 and any a, b whose result fits
MulDiv(a, b, c) ==
    (a \div c) * b + (a % c) * (b \div c) + ((a % c) * (b % c)) \div c

\* <<q, r>> with a * b = q * c + r and 0 <= r < c, for 0 <= a < c, b >= 0:
\* b is taken digit by digit in the largest radix k that keeps 2 * k * c
\* within 31 bits
RECURSIVE MulDivQR(_, _, _)
MulDivQR(a, b, c) ==
    IF b = 0 THEN <<0, 0>>
    ELSE LET k == Max(2, 1073741823 \div c)
             h == MulDivQR(a, b \div k, c)
             t == k * h[2] + (b % k) * a
         IN  <<k * h[1] + t \div c, t % c>>

\* floor(a * b / c), exact, for b >= 0 and any c > 0 below 2^29
MulDivWide(a, b, c) == (a \div c) * b + MulDivQR(a % c, b, c)[1]

\* floor(a * b / c) for a divisor of either sign
DivSigned(a, b, c) ==
    IF c > 0 THEN MulDivWide(a, b, c) ELSE MulDivWide(-a, b, -c)

\* floor(sqrt(n)) for n >= 1 by Heron's iteration downwards from x >= sqrt(n)
RECURSIVE ISqrtIn(_, _)
ISqrtIn(n, x) ==
    LET y == (x + n \div x) \div 2
    IN  IF y >= x THEN x ELSE ISqrtIn(n, y)

ISqrt(n) == IF n = 0 THEN 0 ELSE ISqrtIn(n, 46340)

-----------------------------------------------------------------------------
(* rider.py *)

\* Rider.effective_cda: the position table, in 0.001 m^2
position_cda(position) ==
    CASE position = "drops" -> 300
      [] position = "hoods" -> 350
      [] position = "tops" -> 400
      [] position = "aero_bars" -> 250

effective_cda(rider) ==
    LET base_cda == IF rider.cda_m2 # None THEN rider.cda_m2[1]
                    ELSE position_cda(rider.position)
    IN  (base_cda * rider.clothing_drag_multiplier) \div 1000

\* (a variant of effective_power_watts: the effort left out)
effective_power_at_ftp(ftp_watts, effort_percentage) == ftp_watts * 1000

\* RiderConfig.effective_power_watts, in mW: ftp_watts is in W and
\* effort_percentage in percent
effective_power_watts(ftp_watts, effort_percentage) ==
    ftp_watts * effort_percentage * 10

-----------------------------------------------------------------------------
(* bike.py *)

\* Bike._default_wheel_weight, in 0.1 kg
_default_wheel_weight(wheel_type) ==
    CASE wheel_type = "standard" -> 18
      [] wheel_type = "aero_shallow" -> 19
      [] wheel_type = "aero_deep" -> 21
      [] wheel_type = "disc" -> 23
      [] wheel_type = "climbing" -> 14

total_weight_kg(bike) ==
    LET wheel_weight == IF bike.wheel_weight_kg # None THEN bike.wheel_weight_kg[1]
                        ELSE _default_wheel_weight(bike.wheel_type)
    IN  bike.weight_kg + wheel_weight

frame_drag_area(bike) ==
    IF bike.frame_cda_m2 # None THEN bike.frame_cda_m2[1]
    ELSE CASE bike.bike_type = "road" -> 150
           [] bike.bike_type = "aero" -> 120
           [] bike.bike_type = "climbing" -> 160
           [] bike.bike_type = "time_trial" -> 80
           [] bike.bike_type = "gravel" -> 170

wheel_drag_area(bike) ==
    IF bike.wheel_cda_m2 # None THEN bike.wheel_cda_m2[1]
    ELSE CASE bike.wheel_type = "standard" -> 100
           [] bike.wheel_type = "aero_shallow" -> 80
           [] bike.wheel_type = "aero_deep" -> 60
           [] bike.wheel_type = "disc" -> 40
           [] bike.wheel_type = "climbing" -> 110

total_bike_cda(bike) == frame_drag_area(bike) + wheel_drag_area(bike)

-----------------------------------------------------------------------------
(* course.py *)

\* WindConditions.speed_ms: speed_kmh / 3.6, from 0.1 km/h to mm/s
speed_ms(wind) == (wind.speed_kmh * 1000) \div 36

\* (a variant of air_density_kg_m3: moist air taken as lighter, 0.4 % per 100 %
\* of humidity)
air_density_moist(cond) ==
    LET temp_kelvin == cond.temperature_c + 27315
        gas == (28705 * temp_kelvin) \div 10
        dry == MulDivWide(cond.pressure_hpa, 1000000, gas)
    IN  (dry * (100000 - 4 * cond.humidity_percent)) \div 100000

\* CourseConditions.air_density_kg_m3, in 0.001 kg/m^3:
\* (pressure_hpa * 100) / (287.05 * (temperature_c + 273.15)).
\* humidity_percent is not read.
air_density_kg_m3(cond) ==
    LET temp_kelvin == cond.temperature_c + 27315          \* 0.01 K
        gas == (28705 * temp_kelvin) \div 10               \* 287.05 * T, in 0.001
        scaled == cond.pressure_hpa * 10000
        tenths == (scaled % gas) * 10
        hundredths == (tenths % gas) * 10
    IN  (scaled \div gas) * 100 + (tenths \div gas) * 10 + hundredths \div gas

-----------------------------------------------------------------------------
(* physics.py: the power model *)

GRAVITY == 981          \* 9.81 m/s^2, in 0.01 m/s^2

\* _aerodynamic_power: 0.5 * rho * CdA * (speed + wind)^2 * speed, in mW
_aerodynamic_power(rider, bike, speed, cond, wind_speed) ==
    LET effective_wind_speed == speed + wind_speed
        total_cda == effective_cda(rider) + total_bike_cda(bike)
        air_density == air_density_kg_m3(cond)
        half_rho_cda == (air_density * total_cda) \div 200           \* 0.0001 kg/m
        square == (effective_wind_speed * effective_wind_speed) \div 10
        cube == MulDiv(square, speed, 10000)                         \* 0.0001 m^3/s^3
    IN  MulDiv(cube, half_rho_cda, 10000) \div 10

\* _rolling_resistance_power: crr * m * g * speed, in mW
_rolling_resistance_power(total_mass_kg, crr, speed) ==
    LET rolling_force == (crr * total_mass_kg * GRAVITY) \div 10000  \* mN
    IN  MulDiv(rolling_force, speed, 1000)

\* (a variant of sin_atan: the cosine taken in place of the sine)
cos_atan(gradient_percent) ==
    1000000000 \div ISqrt((gradient_percent * gradient_percent + 1000000) * 100)

\* sin(atan(gradient_percent / 100)) = g / sqrt(g^2 + 100^2), in 0.00001
sin_atan(gradient_percent) ==
    (gradient_percent * 1000000)
        \div ISqrt((gradient_percent * gradient_percent + 1000000) * 100)

\* _gravitational_power: m * g * sin(atan(gradient / 100)) * speed, in mW
_gravitational_power(total_mass_kg, gradient_percent, speed) ==
    LET gravity_force ==
            MulDiv(total_mass_kg * GRAVITY, sin_atan(gradient_percent), 10000) \div 10
    IN  MulDiv(gravity_force, speed, 1000)

\* The sum of line 59, before the clamp of line 61
total_power(rider, bike, segment, speed, cond, wind_speed) ==
    LET total_mass_kg == rider.weight_kg + total_weight_kg(bike)
    IN  _aerodynamic_power(rider, bike, speed, cond, wind_speed)
        + _rolling_resistance_power(total_mass_kg, bike.crr, speed)
        + _gravitational_power(total_mass_kg, segment.gradient_percent, speed)

\* (a variant of clamp_power: the clamp left out)
clamp_power_off(p) == p

\* (a variant of clamp_power: the magnitude taken in place of the clamp)
clamp_power_abs(p) == Abs(p)

\* The clamp of line 61: max(0, total_power)
clamp_power(p) == Max(0, p)

calculate_power_required(rider, bike, segment, speed, cond, wind_speed) ==
    clamp_power(total_power(rider, bike, segment, speed, cond, wind_speed))

-----------------------------------------------------------------------------
(* physics.py: the speed solver *)

InitialGuess == 10000   \* speed_guess = 10.0 m/s
MaxIterations == 50     \* for _ in range(50)
delta_speed == 10       \* 0.01 m/s
MinSpeed == 100         \* 0.1 m/s
DefaultTolerance == 100 \* tolerance: float = 0.1, in mm/s

\* The tolerances a caller passes: the default and 5 m/s
Tolerances == {DefaultTolerance, 5000}

power_at(a, speed) ==
    calculate_power_required(a.rider, a.bike, a.segment, speed, a.conditions,
                             a.wind_speed_ms)

\* (a variant of within_one_watt: the threshold taken as 100 W)
within_hundred_watts(power_diff) == Abs(power_diff) < 100000

\* abs(power_diff) < 1.0
within_one_watt(power_diff) == Abs(power_diff) < 1000

\* (a variant of clamp_speed: a floor of 0.001 m/s)
clamp_speed_low(speed) == Max(1, speed)

\* (a variant of clamp_speed: the floor left out)
clamp_speed_off(speed) == speed

\* speed_guess = max(0.1, speed_guess)
clamp_speed(speed) == Max(MinSpeed, speed)

\* (a variant of newton_iteration: the loop also left when the update is
\* smaller than the tolerance)
newton_iteration_tolerant(a, s) ==
    LET power_required == power_at(a, s)
        power_diff == power_required - a.power_watts
        power_at_delta == power_at(a, s + delta_speed)
        derivative == ((power_at_delta - power_required) * 1000) \div delta_speed
    IN  IF within_one_watt(power_diff) THEN [exit |-> "converged", speed |-> s]
        ELSE IF Abs(derivative) < 1 THEN [exit |-> "degenerate", speed |-> s]
        ELSE IF Abs(DivSigned(power_diff, 1000, derivative)) < a.tolerance
        THEN [exit |-> "converged", speed |-> s]
        ELSE [exit |-> "none",
              speed |-> clamp_speed(s - DivSigned(power_diff, 1000, derivative))]

\* One body of the loop of calculate_speed_from_power, from speed_guess s:
\* the exit it takes ("none": it goes round again) and the speed_guess after it.
\* derivative is in mW per m/s, so 0.001 W/(m/s) is 1.  a.tolerance is not read.
newton_iteration(a, s) ==
    LET power_required == power_at(a, s)
        power_diff == power_required - a.power_watts
        power_at_delta == power_at(a, s + delta_speed)
        derivative == ((power_at_delta - power_required) * 1000) \div delta_speed
    IN  IF within_one_watt(power_diff) THEN [exit |-> "converged", speed |-> s]
        ELSE IF Abs(derivative) < 1 THEN [exit |-> "degenerate", speed |-> s]
        ELSE [exit |-> "none",
              speed |-> clamp_speed(s - DivSigned(power_diff, 1000, derivative))]

\* The loop from its n-th body on: <<speed returned, exit taken, bodies run>>
RECURSIVE newton_loop(_, _, _)
newton_loop(a, s, n) ==
    IF n = MaxIterations THEN <<s, "cap", n>>
    ELSE CHOOSE out \in {IF r.exit # "none" THEN <<r.speed, r.exit, n>>
                          ELSE newton_loop(a, r.speed, n + 1) :
                          r \in {newton_iteration(a, s)}} : TRUE

calculate_speed_from_power(rider, bike, segment, power_watts, cond, wind_speed) ==
    newton_loop([rider |-> rider, bike |-> bike, segment |-> segment,
                 power_watts |-> power_watts, conditions |-> cond,
                 wind_speed_ms |-> wind_speed, tolerance |-> DefaultTolerance],
                InitialGuess, 0)[1]

-----------------------------------------------------------------------------
(* physics.py: the wind component *)

\* math.cos(math.radians(x)) for x a multiple of 10 degrees, in 0.0001.
\* (The double nearest cos(90 deg) is 6.1e-17; at this resolution it is 0.)
cos_first_quadrant(x) ==
    CASE x = 0 -> 10000 [] x = 10 -> 9848 [] x = 20 -> 9397 [] x = 30 -> 8660
      [] x = 40 -> 7660 [] x = 50 -> 6428 [] x = 60 -> 5000 [] x = 70 -> 3420
      [] x = 80 -> 1736 [] x = 90 -> 0

cos_degrees(x) ==
    LET y == Abs(x) % 360
        z == IF y > 180 THEN 360 - y ELSE y
    IN  IF z > 90 THEN -cos_first_quadrant(180 - z) ELSE cos_first_quadrant(z)

\* (a variant of fold_angle: the difference left unfolded)
fold_angle_off(angle_diff) == angle_diff

\* angle_diff = min(angle_diff, 360 - angle_diff)
fold_angle(angle_diff) == Min(angle_diff, 360 - angle_diff)

\* (a variant of flip_tailwind: the sign of the cosine kept)
flip_tailwind_off(angle_diff, wind_component) == wind_component

\* if angle_diff > 90: wind_component = -wind_component
flip_tailwind(angle_diff, wind_component) ==
    IF angle_diff > 90 THEN -wind_component ELSE wind_component

\* wind_conditions is None or a one-element sequence; the result is in mm/s
estimate_wind_component(segment, wind_conditions, course_bearing_degrees) ==
    IF wind_conditions = None THEN 0
    ELSE LET wind == wind_conditions[1]
             angle_diff == fold_angle(Abs(wind.direction_degrees - course_bearing_degrees))
             wind_component == MulDiv(speed_ms(wind), cos_degrees(angle_diff), 10000)
         IN  flip_tailwind(angle_diff, wind_component)

-----------------------------------------------------------------------------
(* simulator.py: simulate_course *)

\* a / b on floats, here floor(a * scale / b): <<>> when Python raises
\* ZeroDivisionError (b = 0), else the quotient in a one-element sequence
\* (a variant of true_divide: a zero divisor gives a silent zero)
true_divide_silent(a, scale, b) ==
    IF b = 0 THEN Some(0) ELSE Some(MulDivWide(a, scale, b))

true_divide(a, scale, b) ==
    IF b = 0 THEN None ELSE Some(MulDivWide(a, scale, b))

\* calculate_time_for_segment: <<time_seconds (ms), speed_ms (mm/s)>>
calculate_time_for_segment(rider, bike, segment, power_watts, cond, wind_speed) ==
    LET speed == calculate_speed_from_power(rider, bike, segment, power_watts,
                                            cond, wind_speed)
    IN  <<true_divide(segment.distance_m, 1000000, speed)[1], speed>>

\* (a variant of segment_wind: `if conditions.wind and segment.bearing_degrees`,
\* a bearing of 0 taken for none)
segment_wind_truthy(segment, cond) ==
    IF cond.wind # None /\ segment.bearing_degrees # None
          /\ segment.bearing_degrees[1] # 0
    THEN estimate_wind_component(segment, cond.wind, segment.bearing_degrees[1])
    ELSE 0

\* Lines 84-88: the wind component simulate_course uses for a segment
segment_wind(segment, cond) ==
    IF cond.wind # None /\ segment.bearing_degrees # None
    THEN estimate_wind_component(segment, cond.wind, segment.bearing_degrees[1])
    ELSE 0

\* (a variant of add_time: the segment's time counted twice)
add_time_doubled(total, time_seconds) == total + 2 * time_seconds

\* (a variant of add_time: the accumulator overwritten)
add_time_overwrite(total, time_seconds) == time_seconds

\* total_time += time_seconds
add_time(total, time_seconds) == total + time_seconds

\* (a variant of power_time: the power not weighted by the time)
power_time_unweighted(available_power, time_seconds) == available_power

\* available_power * time_seconds, in mW s
power_time(available_power, time_seconds) == MulDiv(available_power, time_seconds, 1000)

\* (a variant of NoSegments: the time accumulator kept from the scenario
\* simulated before)
NoSegments_carried ==
    [segment_results |-> <<>>,
     total_time |-> IF sweep # None /\ sweep[1].results # <<>>
                    THEN sweep[1].results[Len(sweep[1].results)].total_time_seconds
                    ELSE 0,
     total_power_time |-> 0]

\* The locals of simulate_course before the loop
NoSegments == [segment_results |-> <<>>, total_time |-> 0, total_power_time |-> 0]

\* One body of the loop over course.segments, for segment i (0-based): the
\* locals after it.  average_speed_kmh is in 0.01 km/h, total_power_time in mW s.
segment_step(acc, i, segment, rider, bike, available_power, cond) ==
    LET wind_speed == segment_wind(segment, cond)
        ts == calculate_time_for_segment(rider, bike, segment, available_power,
                                         cond, wind_speed)
        segment_result ==
            [segment_index |-> i,
             distance_m |-> segment.distance_m,
             elevation_gain_m |-> segment.elevation_gain_m,
             gradient_percent |-> segment.gradient_percent,
             time_seconds |-> ts[1],
             average_speed_kmh |-> (ts[2] * 36) \div 100,
             power_watts |-> available_power]
    IN  [segment_results |-> Append(acc.segment_results, segment_result),
         total_time |-> add_time(acc.total_time, ts[1]),
         total_power_time |-> acc.total_power_time + power_time(available_power, ts[1])]

\* Lines 110-123: <<>> when the average-speed division raises, else the
\* SimulationResult in a one-element sequence
finish_course(acc, crs, rider_config, bike_config, scenario_name) ==
    LET average_speed_kmh == true_divide(crs.total_distance_km, 360000, acc.total_time)
        average_power_watts ==
            IF acc.total_time > 0
            THEN true_divide(acc.total_power_time, 1000, acc.total_time)[1]
            ELSE 0
    IN  IF average_speed_kmh = None THEN None
        ELSE Some([scenario_name |-> scenario_name,
                   rider_config |-> rider_config,
                   bike_config |-> bike_config,
                   total_time_seconds |-> acc.total_time,
                   total_distance_km |-> crs.total_distance_km,
                   average_speed_kmh |-> average_speed_kmh[1],
                   average_power_watts |-> average_power_watts,
                   segment_results |-> acc.segment_results])

\* The loop over course.segments from segment i on
RECURSIVE run_segments(_, _, _, _, _, _, _)
run_segments(acc, i, crs, rider, bike, available_power, cond) ==
    IF i = Len(crs.segments) THEN acc
    ELSE run_segments(
             segment_step(acc, i, crs.segments[i + 1], rider, bike, available_power, cond),
             i + 1, crs, rider, bike, available_power, cond)

\* simulate_course as its callers see it; hp is the heap rider_config.rider
\* refers into
simulate_course(hp, crs, rider_config, bike_config, cond, scenario_name) ==
    LET rider == hp[rider_config.rider]
        available_power ==
            effective_power_watts(rider.ftp_watts, rider_config.effort_percentage)
    IN  finish_course(
            run_segments(NoSegments, 0, crs, rider, bike_config.bike,
                         available_power, cond),
            crs, rider_config, bike_config, scenario_name)

-----------------------------------------------------------------------------
(* simulator.py: compare_scenarios *)

\* list.sort(key=...) is stable: r goes after every element whose key is not
\* greater
RECURSIVE insert_by_time(_, _)
insert_by_time(sorted, r) ==
    IF sorted = <<>> THEN <<r>>
    ELSE IF sorted[Len(sorted)].total_time_seconds <= r.total_time_seconds
         THEN Append(sorted, r)
         ELSE Append(insert_by_time(SubSeq(sorted, 1, Len(sorted) - 1), r),
                     sorted[Len(sorted)])

RECURSIVE sort_from(_, _, _)
sort_from(sorted, results, k) ==
    IF k > Len(results) THEN sorted
    ELSE sort_from(insert_by_time(sorted, results[k]), results, k + 1)

\* (a variant of sort_by_total_time: equal times in the reverse of the order
\* given)
sort_ties_reversed(results) ==
    sort_from(<<>>, [k \in 1..Len(results) |-> results[Len(results) + 1 - k]], 1)

\* (a variant of sort_by_total_time: the list left in scenario order)
sort_by_total_time_off(results) == results

\* results.sort(key=lambda r: r.total_time_seconds)
sort_by_total_time(results) == sort_from(<<>>, results, 1)

-----------------------------------------------------------------------------
(* simulator.py: analyze_power_impact and analyze_weight_impact *)

\* (a variant of model_copy: the same object handed back)
model_copy_alias(hp, id) == id

\* base_rider_config.rider.model_copy(): the identity of the new Rider object
model_copy(hp, id) == Len(hp) + 1

\* (a variant of sweep_effort: RiderConfig's default of 1.0)
sweep_effort_default(base_rider_config) == 100

\* effort_percentage=base_rider_config.effort_percentage
sweep_effort(base_rider_config) == base_rider_config.effort_percentage

\* One body of the loop of analyze_power_impact ("power") or
\* analyze_weight_impact ("weight") for value v: the heap after the copy and
\* the assignment, and what simulate_course gave
sweep_step(kind, hp, crs, base_rider_config, bike_config, cond, v) ==
    LET modified_rider == model_copy(hp, base_rider_config.rider)
        copied == [id \in 1..Max(Len(hp), modified_rider) |->
                       IF id = modified_rider THEN hp[base_rider_config.rider]
                       ELSE hp[id]]
        assigned == IF kind = "power"
                    THEN [copied EXCEPT ![modified_rider].ftp_watts = v]
                    ELSE [copied EXCEPT ![modified_rider].weight_kg = v]
        modified_config ==
            [name |-> IF kind = "power" THEN <<"FTP_", v, "W">>
                      ELSE <<"Weight_", v, "kg">>,
             rider |-> modified_rider,
             effort_percentage |-> sweep_effort(base_rider_config)]
    IN  [heap |-> assigned,
         result |-> simulate_course(assigned, crs, modified_config, bike_config, cond,
                        IF kind = "power" THEN <<"FTP ", v, "W">>
                        ELSE <<"Weight ", v, "kg">>)]

-----------------------------------------------------------------------------
(* gpx_parser.py.  A point's latitude and longitude are metres north and   *)
(* east of a reference point; elevation_m is in m and distance_km in m.    *)

DefaultMinSegmentDistance == 10

\* haversine(.., unit=METERS) over the few hundred metres of a track
haversine(point1, point2) ==
    ISqrt((point2.latitude - point1.latitude) * (point2.latitude - point1.latitude)
          + (point2.longitude - point1.longitude) * (point2.longitude - point1.longitude))

_calculate_distance_meters(point1, point2) == haversine(point1, point2)

\* (elevation_gain_m / distance_m) * 100, in 0.1 percent
_calculate_gradient(elevation_gain_m, distance_m) ==
    IF distance_m = 0 THEN 0
    ELSE IF elevation_gain_m >= 0 THEN (elevation_gain_m * 1000) \div distance_m
    ELSE -((-elevation_gain_m * 1000) \div distance_m)

\* degrees(atan(num / den)) for 0 <= num <= den, den > 0, in whole degrees
\* (45 x + 15.64 x (1 - x), within a quarter of a degree of the arc tangent)
atan_degrees(num, den) ==
    LET x == (num * 1000) \div den
    IN  (45 * x + (1564 * x * (1000 - x)) \div 100000 + 500) \div 1000

\* degrees(atan2(east, north)) turned into 0..359; atan2(0, 0) is 0
_calculate_bearing(point1, point2) ==
    LET east == point2.longitude - point1.longitude
        north == point2.latitude - point1.latitude
        from_axis == IF Abs(east) <= Abs(north)
                     THEN atan_degrees(Abs(east), Abs(north))
                     ELSE 90 - atan_degrees(Abs(north), Abs(east))
    IN  IF east = 0 /\ north = 0 THEN 0
        ELSE IF east >= 0 /\ north >= 0 THEN from_axis
        ELSE IF east >= 0 THEN 180 - from_axis
        ELSE IF north < 0 THEN 180 + from_axis
        ELSE (360 - from_axis) % 360

\* _convert_to_course_points from point i (1-based) on; point.elevation is
\* <<>> for a point without an <ele> element
RECURSIVE convert_from(_, _, _)
convert_from(gpx_points, i, cumulative_distance_km) ==
    IF i > Len(gpx_points) THEN <<>>
    ELSE LET cumulative ==
                 IF i > 1
                 THEN cumulative_distance_km + haversine(gpx_points[i - 1], gpx_points[i])
                 ELSE cumulative_distance_km
         IN  <<[latitude |-> gpx_points[i].latitude,
                longitude |-> gpx_points[i].longitude,
                elevation_m |-> IF gpx_points[i].elevation = None THEN 0
                                ELSE gpx_points[i].elevation[1],
                distance_km |-> cumulative]>>
                 \o convert_from(gpx_points, i + 1, cumulative)

_convert_to_course_points(gpx_points) == convert_from(gpx_points, 1, 0)

\* if distance_m < self.min_segment_distance_m: continue
too_short(distance_m, min_segment_distance_m) == distance_m < min_segment_distance_m

\* One body of the loop of _create_segments, for the pair i, i + 1 (1-based):
\* the list after it
create_segment(segments, course_points, i, min_segment_distance_m) ==
    LET start_point == course_points[i]
        end_point == course_points[i + 1]
        distance_m == _calculate_distance_meters(start_point, end_point)
        elevation_gain_m == end_point.elevation_m - start_point.elevation_m
    IN  IF too_short(distance_m, min_segment_distance_m) THEN segments
        ELSE Append(segments,
                    [start_point |-> start_point,
                     end_point |-> end_point,
                     distance_m |-> distance_m,
                     elevation_gain_m |-> elevation_gain_m,
                     gradient_percent |-> _calculate_gradient(elevation_gain_m, distance_m),
                     bearing_degrees |-> Some(_calculate_bearing(start_point, end_point))])

RECURSIVE create_segments_from(_, _, _, _)
create_segments_from(segments, course_points, i, min_segment_distance_m) ==
    IF i >= Len(course_points) THEN segments
    ELSE create_segments_from(
             create_segment(segments, course_points, i, min_segment_distance_m),
             course_points, i + 1, min_segment_distance_m)

_create_segments(course_points, min_segment_distance_m) ==
    create_segments_from(<<>>, course_points, 1, min_segment_distance_m)

\* _calculate_elevation_totals: <<total_gain, total_loss>>
RECURSIVE _calculate_elevation_totals(_)
_calculate_elevation_totals(segments) ==
    IF segments = <<>> THEN <<0, 0>>
    ELSE LET rest == _calculate_elevation_totals(Tail(segments))
             gain == segments[1].elevation_gain_m
         IN  <<rest[1] + (IF gain > 0 THEN gain ELSE 0),
               rest[2] + (IF gain < 0 THEN -gain ELSE 0)>>

\* (a variant of gradient_range: max(..., default=0) and min(..., default=0))
gradient_range_default(segments) ==
    LET all == {segments[i].gradient_percent : i \in 1..Len(segments)} \cup {0}
    IN  Some(<<CHOOSE g \in all : \A h \in all : h <= g,
               CHOOSE g \in all : \A h \in all : h >= g>>)

\* max(seg.gradient_percent for seg in segments) and min(...): <<>> when
\* max() raises ValueError on an empty list, else <<max, min>> in a one-element
\* sequence
gradient_range(segments) ==
    LET all == {segments[i].gradient_percent : i \in 1..Len(segments)}
    IN  IF all = {} THEN None
        ELSE Some(<<CHOOSE g \in all : \A h \in all : h <= g,
                    CHOOSE g \in all : \A h \in all : h >= g>>)

Raise(type, message) == [kind |-> "raise", type |-> type, message |-> message]
Return(value) == [kind |-> "return", value |-> value]

\* Course(...) as parse_gpx_file and create_sample_course call it
build_course(name, segments, total_distance_km, gain_loss, start_elevation_m, end_elevation_m) ==
    LET range == gradient_range(segments)
    IN  IF range = None THEN Raise("ValueError", "max() arg is an empty sequence")
        ELSE Return([name |-> name,
                     segments |-> segments,
                     total_distance_km |-> total_distance_km,
                     total_elevation_gain_m |-> gain_loss[1],
                     total_elevation_loss_m |-> gain_loss[2],
                     start_elevation_m |-> start_elevation_m,
                     end_elevation_m |-> end_elevation_m,
                     max_gradient_percent |-> range[1][1],
                     min_gradient_percent |-> range[1][2]])

\* parse_gpx_file up to line 52: the exception raised there, or <<>>.  A file
\* is [exists, well_formed, tracks]; a track is the points of its segments
\* in order
parse_rejects(file) ==
    IF ~file.exists THEN Some(Raise("FileNotFoundError", "GPX file not found"))
    ELSE IF ~file.well_formed THEN Some(Raise("GPXXMLSyntaxException", "Error parsing XML"))
    ELSE IF file.tracks = <<>> THEN Some(Raise("ValueError", "No tracks found in GPX file"))
    ELSE IF Len(file.tracks[1]) < 2
         THEN Some(Raise("ValueError", "GPX file must contain at least 2 points"))
    ELSE None

\* parse_gpx_file from line 60 on
parse_finish(file, course_points, segments) ==
    build_course(file.stem, segments, course_points[Len(course_points)].distance_km,
                 _calculate_elevation_totals(segments),
                 course_points[1].elevation_m,
                 course_points[Len(course_points)].elevation_m)

parse_gpx_file(file, min_segment_distance_m) ==
    IF parse_rejects(file) # None THEN parse_rejects(file)[1]
    ELSE LET course_points == _convert_to_course_points(file.tracks[1])
         IN  parse_finish(file, course_points,
                          _create_segments(course_points, min_segment_distance_m))

\* The seven points of create_sample_course: 0.001 degrees of latitude are
\* 111 m and 0.001 degrees of longitude 84 m at 40.76 degrees north
SamplePoints ==
    <<[latitude |-> 0, longitude |-> 0, elevation_m |-> 10, distance_km |-> 0],
      [latitude |-> 111, longitude |-> 0, elevation_m |-> 15, distance_km |-> 100],
      [latitude |-> 222, longitude |-> 84, elevation_m |-> 25, distance_km |-> 300],
      [latitude |-> 222, longitude |-> 168, elevation_m |-> 30, distance_km |-> 400],
      [latitude |-> 111, longitude |-> 168, elevation_m |-> 20, distance_km |-> 500],
      [latitude |-> 0, longitude |-> 84, elevation_m |-> 12, distance_km |-> 700],
      [latitude |-> 0, longitude |-> 0, elevation_m |-> 10, distance_km |-> 800]>>

create_sample_course ==
    build_course("Sample Loop Course",
                 _create_segments(SamplePoints, DefaultMinSegmentDistance),
                 800, <<20, 18>>, 10, 10)

-----------------------------------------------------------------------------
(* interfaces/cli/main.py.  What a command writes is kept as a sequence of *)
(* records, one per block of lines echoed.                                 *)

\* f"{x:.nf}": a / unit rounded to the nearest integer, halves to even
round_half_even(a, unit) ==
    LET q == Abs(a) \div unit
        r == Abs(a) % unit
        m == IF 2 * r > unit \/ (2 * r = unit /\ q % 2 = 1) THEN q + 1 ELSE q
    IN  IF a < 0 THEN -m ELSE m

\* The decimal digits of n >= 0, the most significant first
RECURSIVE digits_of(_)
digits_of(n) == IF n < 10 THEN <<n>> ELSE Append(digits_of(n \div 10), n % 10)

\* f"{n:02d}"
zero_padded(n) == IF n < 10 THEN <<0, n>> ELSE digits_of(n)

\* (a variant of total_time_formatted: the minutes not reduced by the hours)
total_time_in_minutes(total_time_seconds) ==
    LET whole == total_time_seconds \div 1000
    IN  <<zero_padded(whole \div 3600), zero_padded(whole \div 60),
          zero_padded(whole % 60)>>

\* SimulationResult.total_time_formatted: the digits of the hours, minutes and
\* seconds fields of "HH:MM:SS"
total_time_formatted(total_time_seconds) ==
    LET whole == total_time_seconds \div 1000
    IN  <<zero_padded(whole \div 3600), zero_padded((whole % 3600) \div 60),
          zero_padded(whole % 60)>>

\* [float(w.strip()) for w in weight_range.split(',')]: a token is <<n>> for
\* a numeral and <<>> for other text, on which float() raises ValueError
parse_floats(tokens) ==
    IF \E k \in 1..Len(tokens) : tokens[k] = None THEN None
    ELSE Some([k \in 1..Len(tokens) |-> tokens[k][1]])

\* The pydantic constraints of Rider and RiderConfig the commands can break:
\* weight_kg > 0, ftp_watts > 0, 0.5 <= effort_percentage <= 1.2
validation_passes(weight, ftp, effort) ==
    weight > 0 /\ ftp > 0 /\ effort >= 50 /\ effort <= 120

\* analyze_power_impact or analyze_weight_impact as its caller sees it: the
\* heap afterwards and <<results>>, or <<>> when simulate_course raised
RECURSIVE analyze_from(_, _, _, _, _, _, _, _)
analyze_from(kind, hp, crs, base_rider_config, bike_config, cond, values, results) ==
    IF values = <<>> THEN [heap |-> hp, results |-> Some(results)]
    ELSE CHOOSE out \in
             {IF st.result = None THEN [heap |-> st.heap, results |-> None]
              ELSE analyze_from(kind, st.heap, crs, base_rider_config, bike_config, cond,
                                Tail(values), Append(results, st.result[1])) :
                 st \in {sweep_step(kind, hp, crs, base_rider_config, bike_config, cond,
                                    Head(values))}} : TRUE

analyze_impact(kind, hp, crs, base_rider_config, bike_config, cond, values) ==
    analyze_from(kind, hp, crs, base_rider_config, bike_config, cond, values, <<>>)

\* _display_results: the block it echoes
_display_results(hp, crs, result) ==
    [kind |-> "results",
     course |-> crs.name,
     distance |-> round_half_even(crs.total_distance_km, 100),          \* 0.1 km
     elevation_gain |-> crs.total_elevation_gain_m,
     max_gradient |-> crs.max_gradient_percent,
     min_gradient |-> crs.min_gradient_percent,
     total_time |-> total_time_formatted(result.total_time_seconds),
     average_speed |-> round_half_even(result.average_speed_kmh, 10),   \* 0.1 km/h
     average_power |-> round_half_even(result.average_power_watts, 1000),
     power_to_weight |-> round_half_even(hp[result.rider_config.rider].ftp_watts * 1000,
                                         hp[result.rider_config.rider].weight_kg),
     difficulty |-> round_half_even(crs.total_distance_km + crs.total_elevation_gain_m * 100,
                                    100)]

\* reference_time = results[0].total_time_seconds
reference_result(results) == results[1]

\* One row of the comparison table: time_diff_str is "+Ns" when time_diff > 0
\* and "Ns" otherwise
comparison_row(result, reference_time) ==
    LET time_diff == result.total_time_seconds - reference_time
    IN  [scenario |-> result.scenario_name,
         time |-> total_time_formatted(result.total_time_seconds),
         speed |-> round_half_even(result.average_speed_kmh, 10),
         time_diff |-> time_diff,
         plus |-> time_diff > 0,
         seconds |-> round_half_even(time_diff, 1000)]

\* _display_comparison: the block it echoes
_display_comparison(results, title) ==
    IF results = <<>>
    THEN [kind |-> "comparison", title |-> title, rows |-> <<>>,
          note |-> "No results to display"]
    ELSE [kind |-> "comparison", title |-> title,
          rows |-> [k \in 1..Len(results) |->
                       comparison_row(results[k],
                                      reference_result(results).total_time_seconds)],
          note |-> ""]

\* (a variant of cli_fail: the exception leaves the command)
cli_escape(run, e) == [run EXCEPT !.pc = "exited", !.escaped = Some(e)]

\* except Exception as e: click.echo(f"Error: {e}", err=True); sys.exit(1)
cli_fail(run, e) ==
    [run EXCEPT !.pc = "exited",
                !.stderr = Append(run.stderr, <<"Error: ", e.message>>),
                !.exit_status = Some(1)]

-----------------------------------------------------------------------------
(* The values the model draws its inputs from *)

RiderOf(weight, ftp) ==
    [weight_kg |-> weight, height_cm |-> None, ftp_watts |-> ftp,
     position |-> "hoods", cda_m2 |-> None, clothing_drag_multiplier |-> 1000]

RoadBike ==
    [bike_type |-> "road", weight_kg |-> 80, wheel_type |-> "standard",
     wheel_weight_kg |-> None, frame_cda_m2 |-> None, wheel_cda_m2 |-> None,
     crr |-> 40]

\* A CourseSegment; its end points play no part in the simulation
SegmentOf(distance, gradient, bearing) ==
    [distance_m |-> distance, elevation_gain_m |-> (distance * gradient) \div 1000,
     gradient_percent |-> gradient, bearing_degrees |-> bearing]

ConditionsOf(humidity, wind) ==
    [temperature_c |-> 2000, humidity_percent |-> humidity,
     pressure_hpa |-> 101325, wind |-> wind]

WindOf(kmh, direction) == [speed_kmh |-> kmh, direction_degrees |-> direction]

\* Physics calls: rider weights 60 and 90 kg; gradients from -10 % to +20 %;
\* powers from 10 W to 300 W; wind components from an 8 m/s tailwind to a
\* 5 m/s headwind
PhysicsWeights == {600, 900}
PhysicsGradients == {-100, -30, 0, 50, 200}
PhysicsPowers == {500, 10000, 150000, 250000, 300000}
PhysicsWinds == {-8000, -5000, 0, 5000}

PhysicsInputs ==
    {[rider |-> RiderOf(w, 250), bike |-> RoadBike,
      segment |-> SegmentOf(1000, g, None), power_watts |-> p,
      conditions |-> ConditionsOf(50, None), wind_speed_ms |-> ws,
      tolerance |-> DefaultTolerance] :
        w \in PhysicsWeights, g \in PhysicsGradients, p \in PhysicsPowers,
        ws \in PhysicsWinds}

\* Sequences over S of length 0..n
SeqsUpTo(S, n) == UNION {[1..k -> S] : k \in 0..n}

RECURSIVE SumDistance(_)
SumDistance(segments) ==
    IF segments = <<>> THEN 0
    ELSE segments[1].distance_m + SumDistance(Tail(segments))

\* A Course whose total_distance_km (here in m) is the sum of its segments,
\* as for a track with no two points closer than min_segment_distance_m
CourseOf(segments) ==
    [segments |-> segments, total_distance_km |-> SumDistance(segments)]

MaxSegments == 2        \* segments of a simulated course
MaxScenarios == 3       \* scenarios of one compare_scenarios call
MaxSweep == 2           \* values of one analyze_*_impact call

\* A zero-length span, 1 km of 3 % descent due north, 500 m of 5 % climb due
\* south
SimSegments ==
    {SegmentOf(0, 0, None), SegmentOf(1000, -30, Some(0)), SegmentOf(500, 50, Some(180))}

\* A course as parse_gpx_file builds it from a track with a pair of points
\* 8 m apart between the descent and the climb: the pair gives no segment but
\* counts in total_distance_km
GappedCourse ==
    [segments |-> <<SegmentOf(1000, -30, Some(0)), SegmentOf(500, 50, Some(180))>>,
     total_distance_km |-> 1508]

Courses ==
    {CourseOf(segments) : segments \in SeqsUpTo(SimSegments, MaxSegments)}
        \cup {GappedCourse}

\* No wind, or 18 km/h from the north
SimConditions == {ConditionsOf(50, None), ConditionsOf(50, Some(WindOf(180, 0)))}

\* The Rider objects the caller made; the first is base_rider_config.rider
ClientRiders == <<RiderOf(800, 250), RiderOf(700, 250), RiderOf(800, 300)>>

BaseRiderConfig == [name |-> "base", rider |-> 1, effort_percentage |-> 90]
RoadBikeConfig == [name |-> "road", bike |-> RoadBike]

Scenarios ==
    {[name |-> "base", rider_config |-> BaseRiderConfig, bike_config |-> RoadBikeConfig],
     [name |-> "light",
      rider_config |-> [name |-> "light", rider |-> 2, effort_percentage |-> 100],
      bike_config |-> RoadBikeConfig],
     [name |-> "strong",
      rider_config |-> [name |-> "strong", rider |-> 3, effort_percentage |-> 100],
      bike_config |-> RoadBikeConfig],
     [name |-> "twin",
      rider_config |-> [name |-> "twin", rider |-> 1, effort_percentage |-> 90],
      bike_config |-> RoadBikeConfig]}

\* FTP values (W) and rider weights (0.1 kg) of the sweeps
SweepValues(kind) == IF kind = "power" THEN {200, 300} ELSE {650, 850}

\* Speeds at which calculate_power_required is evaluated, 0 to 20 m/s
ProbeSpeeds == {0, 100, 1000, 3000, 5000, 8000, 10000, 10010, 15000, 20000}

ProbeWindSpeeds == {0, 180}
ProbeDirections == {0, 90, 180, 270, 350}
ProbeBearings == {0, 10, 90, 180, 360}

-----------------------------------------------------------------------------
(* The physics driver: one call of a physics function at a time *)

\* No parser and no command at work
ParserOff ==
    [pc |-> "off", fn |-> "", file |-> None, min_segment_distance_m |-> DefaultMinSegmentDistance,
     course_points |-> <<>>, i |-> 0, segments |-> <<>>, outcome |-> None]

ShownOff == [total_time_seconds |-> 0, text |-> None]

CliOff ==
    [pc |-> "off", argv |-> None, values |-> <<>>, course |-> None, heap |-> <<>>,
     results |-> None, stdout |-> <<>>, stderr |-> <<>>, exit_status |-> None,
     escaped |-> None]

IdleSession ==
    /\ heap = <<>>
    /\ course = [segments |-> <<>>, total_distance_km |-> 0]
    /\ conditions = ConditionsOf(50, None)
    /\ op = "off"
    /\ seg_i = 0
    /\ segment_results = <<>>
    /\ total_time = 0
    /\ total_power_time = 0
    /\ outcome = None
    /\ sweep = None
    /\ call = None

PhysicsInit ==
    /\ pmode = "idle"
    /\ inp \in PhysicsInputs
    /\ speed_guess = InitialGuess
    /\ iterations = 0
    /\ exit_kind = "none"
    /\ power_log = <<>>
    /\ wind_out = None
    /\ IdleSession
    /\ parser = ParserOff
    /\ cli = CliOff
    /\ shown = ShownOff

\* calculate_speed_from_power is entered with a tolerance: speed_guess = 10.0
SolverStart ==
    /\ pmode = "idle"
    /\ pmode' = "solving"
    /\ \E tolerance \in Tolerances : inp' = [inp EXCEPT !.tolerance = tolerance]
    /\ speed_guess' = InitialGuess
    /\ iterations' = 0
    /\ exit_kind' = "none"
    /\ power_log' = <<>>
    /\ wind_out' = None
    /\ UNCHANGED <<sim_vars, front_vars>>

\* One body of the for loop: a break returns, otherwise the guess is updated
SolverIterate ==
    /\ pmode = "solving"
    /\ iterations < MaxIterations
    /\ LET r == newton_iteration(inp, speed_guess)
       IN  IF r.exit # "none"
           THEN /\ pmode' = "returned"
                /\ exit_kind' = r.exit
                /\ UNCHANGED <<speed_guess, iterations>>
           ELSE /\ speed_guess' = r.speed
                /\ iterations' = iterations + 1
                /\ UNCHANGED <<pmode, exit_kind>>
    /\ UNCHANGED <<inp, power_log, wind_out, sim_vars, front_vars>>

\* range(50) is used up: the loop ends and speed_guess is returned
SolverExhausted ==
    /\ pmode = "solving"
    /\ iterations = MaxIterations
    /\ pmode' = "returned"
    /\ exit_kind' = "cap"
    /\ UNCHANGED <<inp, speed_guess, iterations, power_log, wind_out, sim_vars, front_vars>>

\* calculate_power_required is called at a speed; the last two calls are kept
PowerProbe ==
    /\ pmode = "idle"
    /\ wind_out = None
    /\ \E s \in ProbeSpeeds :
         LET seen == [speed |-> s, power |-> power_at(inp, s)]
         IN  power_log' = IF power_log = <<>> THEN <<seen>>
                          ELSE <<power_log[Len(power_log)], seen>>
    /\ UNCHANGED <<pmode, inp, speed_guess, iterations, exit_kind, wind_out, sim_vars, front_vars>>

\* estimate_wind_component is called
WindProbe ==
    /\ pmode = "idle"
    /\ power_log = <<>>
    /\ \E kmh \in ProbeWindSpeeds, d \in ProbeDirections, b \in ProbeBearings :
         wind_out' = Some([wind |-> WindOf(kmh, d), course_bearing_degrees |-> b,
                           component |-> estimate_wind_component(
                               inp.segment, Some(WindOf(kmh, d)), b)])
    /\ UNCHANGED <<pmode, inp, speed_guess, iterations, exit_kind, power_log, sim_vars, front_vars>>

PhysicsNext ==
    \/ SolverStart
    \/ SolverIterate
    \/ SolverExhausted
    \/ PowerProbe
    \/ WindProbe

PhysicsSpec == PhysicsInit /\ [][PhysicsNext]_vars

-----------------------------------------------------------------------------
(* The simulator session: a caller makes one call at a time on a            *)
(* CourseSimulator and drops what it got before the next call               *)

PhysicsOff ==
    /\ pmode = "off"
    /\ inp = None
    /\ speed_guess = InitialGuess
    /\ iterations = 0
    /\ exit_kind = "none"
    /\ power_log = <<>>
    /\ wind_out = None

Init ==
    /\ PhysicsOff
    /\ heap = ClientRiders
    /\ course \in Courses
    /\ conditions \in SimConditions
    /\ op = "idle"
    /\ seg_i = 0
    /\ segment_results = <<>>
    /\ total_time = 0
    /\ total_power_time = 0
    /\ outcome = None
    /\ sweep = None
    /\ call = None
    /\ parser = ParserOff
    /\ cli = CliOff
    /\ shown = ShownOff

Outcome(fn, args, value) ==
    Some([fn |-> fn, args |-> args,
          kind |-> IF value = None THEN "raise" ELSE "return",
          value |-> IF value = None THEN <<>> ELSE value[1]])

\* simulate_course is entered: lines 74-80
SimulateStart ==
    /\ op = "idle" /\ outcome = None
    /\ \E sc \in Scenarios :
         call' = Some([rider_config |-> sc.rider_config,
                       bike_config |-> sc.bike_config, scenario_name |-> sc.name])
    /\ op' = "simulate"
    /\ seg_i' = 0
    /\ segment_results' = NoSegments.segment_results
    /\ total_time' = NoSegments.total_time
    /\ total_power_time' = NoSegments.total_power_time
    /\ UNCHANGED <<physics_vars, front_vars, heap, course, conditions, outcome, sweep>>

\* One body of the loop over course.segments: lines 82-108
SimulateSegment ==
    /\ op = "simulate"
    /\ seg_i < Len(course.segments)
    /\ LET rider == heap[call[1].rider_config.rider]
           acc == segment_step(
                      [segment_results |-> segment_results, total_time |-> total_time,
                       total_power_time |-> total_power_time],
                      seg_i, course.segments[seg_i + 1], rider, call[1].bike_config.bike,
                      effective_power_watts(rider.ftp_watts,
                                            call[1].rider_config.effort_percentage),
                      conditions)
       IN  /\ segment_results' = acc.segment_results
           /\ total_time' = acc.total_time
           /\ total_power_time' = acc.total_power_time
    /\ seg_i' = seg_i + 1
    /\ UNCHANGED <<physics_vars, front_vars, heap, course, conditions, op, outcome, sweep, call>>

\* The loop is over: lines 110-123 return the result or raise
SimulateFinish ==
    /\ op = "simulate"
    /\ seg_i = Len(course.segments)
    /\ outcome' = Outcome("simulate_course", <<call[1].scenario_name>>,
                      finish_course(
                          [segment_results |-> segment_results,
                           total_time |-> total_time,
                           total_power_time |-> total_power_time],
                          course, call[1].rider_config, call[1].bike_config,
                          call[1].scenario_name))
    /\ op' = "idle"
    /\ UNCHANGED <<physics_vars, front_vars, heap, course, conditions, seg_i, segment_results,
                   total_time, total_power_time, sweep, call>>

\* compare_scenarios is entered: results = [].  The scenarios list is drawn
\* one scenario at a time, as the loop comes to it
CompareStart ==
    /\ op = "idle" /\ outcome = None
    /\ op' = "compare"
    /\ call' = Some([scenarios |-> <<>>])
    /\ sweep' = Some([todo |-> <<>>, results |-> <<>>])
    /\ UNCHANGED <<physics_vars, front_vars, heap, course, conditions, seg_i, segment_results,
                   total_time, total_power_time, outcome>>

\* One body of the loop over scenarios: lines 147-155; an exception of
\* simulate_course ends the call
CompareIterate ==
    /\ op = "compare"
    /\ Len(call[1].scenarios) < MaxScenarios
    /\ \E scenario \in Scenarios :
         \E result \in {simulate_course(heap, course, scenario.rider_config,
                                        scenario.bike_config, conditions,
                                        scenario.name)} :
            /\ call' = Some([scenarios |-> Append(call[1].scenarios, scenario)])
            /\ IF result = None
               THEN /\ outcome' = Outcome("compare_scenarios",
                                          Append(call[1].scenarios, scenario), None)
                    /\ op' = "idle"
                    /\ sweep' = None
               ELSE /\ sweep' = Some([todo |-> <<>>,
                                      results |-> Append(sweep[1].results, result[1])])
                    /\ UNCHANGED <<op, outcome>>
    /\ UNCHANGED <<physics_vars, front_vars, heap, course, conditions, seg_i, segment_results,
                   total_time, total_power_time>>

\* The scenarios list is at its end: lines 158-160 sort and return
CompareReturn ==
    /\ op = "compare"
    /\ outcome' = Outcome("compare_scenarios", call[1].scenarios,
                          Some(sort_by_total_time(sweep[1].results)))
    /\ op' = "idle"
    /\ sweep' = None
    /\ UNCHANGED <<physics_vars, front_vars, heap, course, conditions, seg_i, segment_results,
                   total_time, total_power_time, call>>

\* analyze_power_impact or analyze_weight_impact is entered: results = []
AnalyzeStart ==
    /\ op = "idle" /\ outcome = None
    /\ \E kind \in {"power", "weight"} :
         \E values \in SeqsUpTo(SweepValues(kind), MaxSweep) :
            /\ op' = kind
            /\ call' = Some([base_rider_config |-> BaseRiderConfig,
                             bike_config |-> RoadBikeConfig, values |-> values])
            /\ sweep' = Some([todo |-> values, results |-> <<>>])
    /\ UNCHANGED <<physics_vars, front_vars, heap, course, conditions, seg_i, segment_results,
                   total_time, total_power_time, outcome>>

AnalyzeName == IF op = "power" THEN "analyze_power_impact" ELSE "analyze_weight_impact"

\* One body of the sweep's loop: copy, assign, simulate, append; an exception
\* of simulate_course ends the call
AnalyzeIterate ==
    /\ op \in {"power", "weight"}
    /\ sweep[1].todo # <<>>
    /\ LET st == sweep_step(op, heap, course, call[1].base_rider_config,
                            call[1].bike_config, conditions, Head(sweep[1].todo))
       IN  /\ heap' = st.heap
           /\ IF st.result = None
              THEN /\ outcome' = Outcome(AnalyzeName, call[1].values, None)
                   /\ op' = "idle"
                   /\ sweep' = None
              ELSE /\ sweep' = Some([todo |-> Tail(sweep[1].todo),
                                     results |-> Append(sweep[1].results, st.result[1])])
                   /\ UNCHANGED <<op, outcome>>
    /\ UNCHANGED <<physics_vars, front_vars, course, conditions, seg_i, segment_results,
                   total_time, total_power_time, call>>

\* The sweep's loop is over: return results
AnalyzeReturn ==
    /\ op \in {"power", "weight"}
    /\ sweep[1].todo = <<>>
    /\ outcome' = Outcome(AnalyzeName, call[1].values, Some(sweep[1].results))
    /\ op' = "idle"
    /\ sweep' = None
    /\ UNCHANGED <<physics_vars, front_vars, heap, course, conditions, seg_i, segment_results,
                   total_time, total_power_time, call>>

\* The caller drops what the call gave it; the Rider copies of a sweep go
\* with it
Discard ==
    /\ op = "idle" /\ outcome # None
    /\ outcome' = None
    /\ call' = None
    /\ heap' = SubSeq(heap, 1, Len(ClientRiders))
    /\ seg_i' = 0
    /\ segment_results' = <<>>
    /\ total_time' = 0
    /\ total_power_time' = 0
    /\ UNCHANGED <<physics_vars, front_vars, course, conditions, op, sweep>>

Next ==
    \/ SimulateStart
    \/ SimulateSegment
    \/ SimulateFinish
    \/ CompareStart
    \/ CompareIterate
    \/ CompareReturn
    \/ AnalyzeStart
    \/ AnalyzeIterate
    \/ AnalyzeReturn
    \/ Discard

Spec == Init /\ [][Next]_vars

-----------------------------------------------------------------------------
(* Track ingestion: one parse_gpx_file or create_sample_course call on a   *)
(* GPXParser                                                                *)

MaxPoints == 4          \* points of a track

\* Track points on one meridian at 0, 50 and 54 m, with or without <ele>
GpxPositions == {0, 50, 54}
GpxPoints ==
    {[latitude |-> lat, longitude |-> 0, elevation |-> ele] :
        lat \in GpxPositions, ele \in {None, Some(5)}}

GpxFileOf(exists, well_formed, tracks) ==
    [exists |-> exists, well_formed |-> well_formed, stem |-> "ride", tracks |-> tracks]

\* A missing file, one that is not XML, one without a track, and the files
\* with one track
GpxFiles ==
    {GpxFileOf(FALSE, FALSE, <<>>), GpxFileOf(TRUE, FALSE, <<>>),
     GpxFileOf(TRUE, TRUE, <<>>)}
        \cup {GpxFileOf(TRUE, TRUE, <<points>>) : points \in SeqsUpTo(GpxPoints, MaxPoints)}

MinSegmentDistances == {0, DefaultMinSegmentDistance}

ParserInit ==
    /\ PhysicsOff
    /\ IdleSession
    /\ cli = CliOff
    /\ shown = ShownOff
    /\ \E file \in GpxFiles, min \in MinSegmentDistances :
          parser = [ParserOff EXCEPT !.pc = "idle", !.file = Some(file),
                                     !.min_segment_distance_m = min]

\* parse_gpx_file, lines 34-55: the file is opened and read, the points of
\* the first track are converted
ParseStart ==
    /\ parser.pc = "idle"
    /\ LET rejected == parse_rejects(parser.file[1])
       IN  parser' =
               IF rejected # None
               THEN [parser EXCEPT !.pc = "done", !.fn = "parse_gpx_file",
                                   !.outcome = rejected]
               ELSE [parser EXCEPT !.pc = "segments", !.fn = "parse_gpx_file",
                                   !.course_points =
                                       _convert_to_course_points(parser.file[1].tracks[1]),
                                   !.i = 0, !.segments = <<>>]
    /\ UNCHANGED <<physics_vars, sim_vars, cli, shown>>

\* One body of the loop of _create_segments: lines 108-132
CreateSegment ==
    /\ parser.pc = "segments"
    /\ parser.i < Len(parser.course_points) - 1
    /\ parser' = [parser EXCEPT
                     !.segments = create_segment(parser.segments, parser.course_points,
                                                 parser.i + 1,
                                                 parser.min_segment_distance_m),
                     !.i = parser.i + 1]
    /\ UNCHANGED <<physics_vars, sim_vars, cli, shown>>

\* The loop is over: lines 60-75 build the Course or raise
ParseFinish ==
    /\ parser.pc = "segments"
    /\ parser.i = Len(parser.course_points) - 1
    /\ parser' = [parser EXCEPT
                     !.pc = "done",
                     !.outcome = Some(parse_finish(parser.file[1], parser.course_points,
                                                   parser.segments))]
    /\ UNCHANGED <<physics_vars, sim_vars, cli, shown>>

\* create_sample_course: lines 176-204
SampleCourse ==
    /\ parser.pc = "idle"
    /\ parser' = [parser EXCEPT !.pc = "done", !.fn = "create_sample_course",
                                !.outcome = Some(create_sample_course)]
    /\ UNCHANGED <<physics_vars, sim_vars, cli, shown>>

ParserNext ==
    \/ ParseStart
    \/ CreateSegment
    \/ ParseFinish
    \/ SampleCourse

ParserSpec == ParserInit /\ [][ParserNext]_vars

-----------------------------------------------------------------------------
(* The command line: one run of one command.  click has checked the        *)
(* arguments before the command's body runs, so the GPX file exists.       *)

\* A file that is not XML, a track of two points 4 m apart, and a track up
\* 5 m over 50 m, on 4 m and back down
CliFiles ==
    {GpxFileOf(TRUE, FALSE, <<>>),
     GpxFileOf(TRUE, TRUE,
               <<<<[latitude |-> 50, longitude |-> 0, elevation |-> None],
                   [latitude |-> 54, longitude |-> 0, elevation |-> None]>>>>),
     GpxFileOf(TRUE, TRUE,
               <<<<[latitude |-> 0, longitude |-> 0, elevation |-> None],
                   [latitude |-> 50, longitude |-> 0, elevation |-> Some(5)],
                   [latitude |-> 54, longitude |-> 0, elevation |-> Some(5)],
                   [latitude |-> 0, longitude |-> 0, elevation |-> None]>>>>)}

\* The text of --weight-range or --ftp-range split at the commas
RangeTokens(command) ==
    IF command = "compare-power" THEN {Some(200), Some(300), None}
    ELSE {Some(650), Some(850), None}

ArgvOf(command, gpx_file, weight, wind_speed, range, plot, disk_ok) ==
    [command |-> command, gpx_file |-> gpx_file, weight |-> weight, ftp |-> 250,
     effort |-> 100, wind_speed |-> wind_speed, wind_direction |-> 0, range |-> range,
     plot |-> plot, disk_ok |-> disk_ok]

\* disk_ok tells whether the plotter can write its files
Argvs ==
    {ArgvOf("simulate", file, weight, wind_speed, <<>>, plot, disk_ok) :
        file \in CliFiles, weight \in {0, 700}, wind_speed \in {0, 180},
        plot \in BOOLEAN, disk_ok \in BOOLEAN}
    \cup UNION {{ArgvOf(command, file, 700, 0, range, plot, disk_ok) :
                    file \in CliFiles, range \in [1..n -> RangeTokens(command)],
                    plot \in BOOLEAN, disk_ok \in BOOLEAN} :
                 command \in {"compare-weight", "compare-power"}, n \in 1..MaxSweep}
    \cup {ArgvOf("sample", GpxFileOf(FALSE, FALSE, <<>>), 700, 0, <<>>, TRUE, disk_ok) :
            disk_ok \in BOOLEAN}

CliInit ==
    /\ PhysicsOff
    /\ IdleSession
    /\ parser = ParserOff
    /\ shown = ShownOff
    /\ \E argv \in Argvs : cli = [CliOff EXCEPT !.pc = "start", !.argv = Some(argv)]

CliConditions(argv) ==
    ConditionsOf(50, IF argv.wind_speed > 0
                     THEN Some(WindOf(argv.wind_speed, argv.wind_direction))
                     ELSE None)

\* The command loads its course: simulate lines 52-54, compare_weight lines
\* 117-121, compare_power lines 161-165, sample lines 196-197
CliLoad ==
    /\ cli.pc = "start"
    /\ LET argv == cli.argv[1]
           compares == argv.command \in {"compare-weight", "compare-power"}
           began == IF argv.command = "simulate"
                    THEN [cli EXCEPT !.stdout = Append(cli.stdout, [kind |-> "loading"])]
                    ELSE cli
       IN  \E values \in {parse_floats(argv.range)},
              loaded \in {IF argv.command = "sample" THEN create_sample_course
                          ELSE parse_gpx_file(argv.gpx_file, DefaultMinSegmentDistance)} :
               cli' = IF compares /\ values = None
                      THEN cli_fail(began, Raise("ValueError",
                                                 "could not convert string to float"))
                      ELSE IF loaded.kind = "raise" THEN cli_fail(began, loaded)
                      ELSE [began EXCEPT !.pc = "loaded",
                                         !.values = IF compares THEN values[1] ELSE <<>>,
                                         !.course = Some(loaded.value)]
    /\ UNCHANGED <<physics_vars, sim_vars, parser, shown>>

\* The command builds its Rider, Bike and conditions and calls the
\* simulator: simulate lines 57-86, compare_weight lines 124-131,
\* compare_power lines 168-175, sample lines 200-207
CliSimulate ==
    /\ cli.pc = "loaded"
    /\ LET argv == cli.argv[1]
           hp == <<RiderOf(argv.weight, argv.ftp)>>
           rider_config ==
               [name |-> IF argv.command = "simulate" THEN "Rider"
                         ELSE IF argv.command = "sample" THEN "Sample Rider" ELSE "Base",
                rider |-> 1, effort_percentage |-> argv.effort]
       IN  IF ~validation_passes(argv.weight, argv.ftp, argv.effort)
           THEN cli' = cli_fail(cli, Raise("ValidationError",
                                           "1 validation error for Rider"))
           ELSE IF argv.command \in {"simulate", "sample"}
           THEN \E result \in {simulate_course(hp, cli.course[1], rider_config,
                                                RoadBikeConfig, CliConditions(argv),
                                                "Simulation")} :
                   cli' = IF result = None
                          THEN cli_fail(cli, Raise("ZeroDivisionError",
                                                   "float division by zero"))
                          ELSE [cli EXCEPT !.pc = "simulated", !.heap = hp,
                                           !.results = result]
           ELSE \E done \in {analyze_impact(
                                  IF argv.command = "compare-power" THEN "power"
                                  ELSE "weight",
                                  hp, cli.course[1], rider_config, RoadBikeConfig,
                                  CliConditions(argv), cli.values)} :
                   cli' = IF done.results = None
                          THEN cli_fail(cli, Raise("ZeroDivisionError",
                                                   "float division by zero"))
                          ELSE [cli EXCEPT !.pc = "simulated", !.heap = done.heap,
                                           !.results = done.results]
    /\ UNCHANGED <<physics_vars, sim_vars, parser, shown>>

\* _display_results (simulate line 89, sample line 210) or
\* _display_comparison (compare_weight line 134, compare_power line 178)
CliDisplay ==
    /\ cli.pc = "simulated"
    /\ LET argv == cli.argv[1]
           block == IF argv.command \in {"simulate", "sample"}
                    THEN _display_results(cli.heap, cli.course[1], cli.results[1])
                    ELSE _display_comparison(cli.results[1],
                                             IF argv.command = "compare-weight"
                                             THEN "Weight Comparison"
                                             ELSE "Power Comparison")
       IN  cli' = [cli EXCEPT !.pc = "displayed", !.stdout = Append(cli.stdout, block)]
    /\ UNCHANGED <<physics_vars, sim_vars, parser, shown>>

\* The plots, when asked for, and the end of the command: simulate lines
\* 92-95, compare_weight lines 137-139, compare_power lines 181-183, sample
\* lines 213-220
CliPlot ==
    /\ cli.pc = "displayed"
    /\ LET argv == cli.argv[1]
           plotted == [cli EXCEPT !.stdout = Append(cli.stdout, [kind |-> "plot saved"])]
       IN  cli' = IF ~argv.plot THEN [cli EXCEPT !.pc = "exited", !.exit_status = Some(0)]
                  ELSE IF ~argv.disk_ok
                  THEN cli_fail(cli, Raise("OSError", "cannot write the plot"))
                  ELSE IF argv.command = "sample"
                  THEN [plotted EXCEPT !.pc = "exited", !.exit_status = Some(0),
                                       !.stdout = Append(plotted.stdout,
                                                         [kind |-> "next steps"])]
                  ELSE [plotted EXCEPT !.pc = "exited", !.exit_status = Some(0)]
    /\ UNCHANGED <<physics_vars, sim_vars, parser, shown>>

CliNext ==
    \/ CliLoad
    \/ CliSimulate
    \/ CliDisplay
    \/ CliPlot

CliSpec == CliInit /\ [][CliNext]_vars

-----------------------------------------------------------------------------
(* A SimulationResult whose total_time_formatted is read *)

\* Total times (ms): around the second, the minute, the hour, a hundred
\* hours, and a hundred more up to 1 h 41 min
FormatTimes ==
    {0, 999, 1000, 59999, 60000, 3599999, 3600000, 3661500, 359999999, 360000000,
     2147483647} \cup {k * 61007 : k \in 1..100}

FormatInit ==
    /\ PhysicsOff
    /\ IdleSession
    /\ parser = ParserOff
    /\ cli = CliOff
    /\ \E t \in FormatTimes : shown = [total_time_seconds |-> t, text |-> None]

\* result.total_time_formatted is read
FormatTime ==
    /\ shown.text = None
    /\ shown' = [shown EXCEPT !.text = Some(total_time_formatted(shown.total_time_seconds))]
    /\ UNCHANGED <<physics_vars, sim_vars, parser, cli>>

\* The display goes on to the next result
ShowAnother ==
    /\ shown.text # None
    /\ \E t \in FormatTimes : shown' = [total_time_seconds |-> t, text |-> None]
    /\ UNCHANGED <<physics_vars, sim_vars, parser, cli>>

FormatNext ==
    \/ FormatTime
    \/ ShowAnother

FormatSpec == FormatInit /\ [][FormatNext]_vars

-----------------------------------------------------------------------------
(* Properties of the physics functions, checked under PhysicsSpec *)

SolverWithinBounds ==
    /\ iterations <= MaxIterations
    /\ speed_guess >= MinSpeed
    /\ pmode = "returned" => exit_kind \in {"converged", "degenerate", "cap"}

\* C1: calculate_speed_from_power runs at most 50 loop bodies (every step of
\* a running call either returns or is one more body), returns by one of its
\* three exits, and its speed_guess is at least 0.1 m/s at every point, the
\* returned value included.
C1_SolverBoundedAndFloored ==
    /\ []SolverWithinBounds
    /\ [][pmode = "solving" =>
            \/ pmode' = "returned" /\ speed_guess' = speed_guess
            \/ pmode' = "solving" /\ iterations' = iterations + 1]_vars

\* C1 witness: a call that used all 50 iterations and returned the floor
C1_CapExitAtFloor ==
    /\ pmode = "returned"
    /\ exit_kind = "cap"
    /\ iterations = MaxIterations
    /\ speed_guess = MinSpeed

\* The angle between wind and bearing before folding, and folded
ProbeDiff == Abs(wind_out[1].wind.direction_degrees - wind_out[1].course_bearing_degrees)
ProbeFolded == Min(ProbeDiff, 360 - ProbeDiff)

\* C5 (as claimed): estimate_wind_component returns a negative value whenever
\* the folded angle exceeds 90 degrees (wind blowing), and minus the wind speed
\* at a folded angle of 180 degrees.
C5_TailwindIsNegative ==
    wind_out # None =>
        /\ (ProbeFolded > 90 /\ wind_out[1].wind.speed_kmh > 0)
               => wind_out[1].component < 0
        /\ ProbeFolded = 180
               => wind_out[1].component = -speed_ms(wind_out[1].wind)

\* C6: estimate_wind_component returns plus the wind speed at an angle
\* difference of 0, returns 0 at a folded difference of 90, and treats a
\* difference d above 180 as the difference 360 - d.
C6_HeadwindAndFold ==
    wind_out # None =>
        /\ ProbeDiff = 0 => wind_out[1].component = speed_ms(wind_out[1].wind)
        /\ ProbeFolded = 90 => wind_out[1].component = 0
        /\ ProbeDiff > 180 =>
               wind_out[1].component =
                   estimate_wind_component(inp.segment,
                       Some(WindOf(wind_out[1].wind.speed_kmh, 360 - ProbeDiff)), 0)

\* C6 witness: wind from 350 on a bearing of 10 is a headwind of cos(20 deg)
C6_Wind350Bearing10 ==
    /\ wind_out # None
    /\ wind_out[1].wind = WindOf(180, 350)
    /\ wind_out[1].course_bearing_degrees = 10
    /\ wind_out[1].component = 4698

\* Of the last two calculate_power_required calls, the one at the lower
\* speed did not give the higher power
ProbesMonotone ==
    Len(power_log) = 2 =>
        (power_log[1].speed <= power_log[2].speed
            => power_log[1].power <= power_log[2].power)

\* C7 (as claimed): calculate_power_required is non-decreasing in speed for
\* any wind_speed_ms, tailwinds included.
C7_MonotoneAnyWind == ProbesMonotone

\* C7 (amended): calculate_power_required is non-decreasing in speed when
\* wind_speed_ms >= 0, for any gradient.
C7_MonotoneNoTailwind == inp.wind_speed_ms >= 0 => ProbesMonotone

\* C7 witness: on a descent with a headwind the power is clamped to 0 at
\* 5 m/s and positive at 15 m/s
C7_ClampedThenRising ==
    /\ Len(power_log) = 2
    /\ inp.wind_speed_ms > 0
    /\ inp.segment.gradient_percent < 0
    /\ power_log[1].speed = 5000 /\ power_log[1].power = 0
    /\ power_log[2].speed = 15000 /\ power_log[2].power > 0

\* The returned speed, fed back to calculate_power_required, gives the power
\* asked for to within 2 W
InverseWithinTwoWatts ==
    Abs(power_at(inp, speed_guess) - inp.power_watts) <= 2000

\* C8 (as claimed): for any power and segment, a returned speed above the
\* 0.1 m/s floor reproduces the power to within 2 W.
C8_InverseAnySegment ==
    (pmode = "returned" /\ speed_guess > MinSpeed) => InverseWithinTwoWatts

\* C8 (amended): the same, for calls with wind_speed_ms >= 0 whose power
\* required at the 10 m/s initial guess is positive (not clamped to 0).
C8_InverseFromUnclampedStart ==
    (/\ pmode = "returned"
     /\ speed_guess > MinSpeed
     /\ inp.wind_speed_ms >= 0
     /\ power_at(inp, InitialGuess) > 0) => InverseWithinTwoWatts

\* C8 witness: a descent solved by the convergence exit after two updates or more
C8_ConvergedOnDescent ==
    /\ pmode = "returned"
    /\ exit_kind = "converged"
    /\ iterations >= 2
    /\ speed_guess > InitialGuess
    /\ inp.segment.gradient_percent < 0
    /\ inp.wind_speed_ms >= 0
    /\ power_at(inp, InitialGuess) > 0

\* The time the returned speed gives the call's segment, and the time the
\* same call gives a rider of weight w
ReturnedSegmentTime == true_divide(inp.segment.distance_m, 1000000, speed_guess)[1]
SegmentTimeAtWeight(w) ==
    calculate_time_for_segment([inp.rider EXCEPT !.weight_kg = w], inp.bike,
                               inp.segment, inp.power_watts, inp.conditions,
                               inp.wind_speed_ms)[1]

\* C11 (as claimed): on a segment of positive gradient, with the same bike,
\* power and conditions, the lighter of two riders gets the strictly lower
\* time (so compare_scenarios ranks the lighter rider first).
C11_LighterStrictlyFaster ==
    (/\ pmode = "returned"
     /\ inp.segment.gradient_percent > 0
     /\ inp.wind_speed_ms >= 0) =>
        \A w \in PhysicsWeights :
            w > inp.rider.weight_kg => ReturnedSegmentTime < SegmentTimeAtWeight(w)

\* The sum aero + rolling + gravity of the i-th logged call, and its terms
LoggedMass == inp.rider.weight_kg + total_weight_kg(inp.bike)
LoggedSum(i) ==
    total_power(inp.rider, inp.bike, inp.segment, power_log[i].speed,
                inp.conditions, inp.wind_speed_ms)
LoggedAero(i) ==
    _aerodynamic_power(inp.rider, inp.bike, power_log[i].speed, inp.conditions,
                       inp.wind_speed_ms)
LoggedRolling(i) == _rolling_resistance_power(LoggedMass, inp.bike.crr, power_log[i].speed)
LoggedGravity(i) ==
    _gravitational_power(LoggedMass, inp.segment.gradient_percent, power_log[i].speed)

\* C13: calculate_power_required never returns a negative value: it returns
\* aero + rolling + gravity when that sum is >= 0, and 0 when the sum is
\* negative
C13_PowerNeverNegative ==
    \A i \in 1..Len(power_log) :
        /\ power_log[i].power >= 0
        /\ LoggedSum(i) >= 0 => power_log[i].power = LoggedSum(i)
        /\ LoggedSum(i) < 0 => power_log[i].power = 0

\* C13 witness: on a descent at 3 m/s the sum is negative and the power
\* returned is 0
C13_NegativeSumGivesZero ==
    /\ Len(power_log) = 1
    /\ power_log[1].speed = 3000
    /\ inp.segment.gradient_percent < 0
    /\ LoggedSum(1) < 0
    /\ power_log[1].power = 0

\* C14: on a segment with gradient_percent = 0 and wind_speed_ms = 0 the
\* gravitational term is 0 at every speed and mass, and
\* calculate_power_required is the aerodynamic term plus the
\* rolling-resistance term
C14_FlatNoWindIsAeroPlusRolling ==
    (inp.segment.gradient_percent = 0 /\ inp.wind_speed_ms = 0) =>
        \A i \in 1..Len(power_log) :
            /\ LoggedGravity(i) = 0
            /\ power_log[i].power = LoggedAero(i) + LoggedRolling(i)

\* C14 witness: a flat, windless call at 10 m/s and then at 20 m/s, both
\* needing power
C14_FlatProbedTwice ==
    /\ inp.segment.gradient_percent = 0 /\ inp.wind_speed_ms = 0
    /\ Len(power_log) = 2
    /\ power_log[1].speed = 10000 /\ power_log[1].power > 0
    /\ power_log[2].speed = 20000 /\ power_log[2].power > power_log[1].power

-----------------------------------------------------------------------------
(* Properties of the simulator, checked under Spec *)

Returned(fn) == outcome # None /\ outcome[1].fn = fn /\ outcome[1].kind = "return"
Raised(fn) == outcome # None /\ outcome[1].fn = fn /\ outcome[1].kind = "raise"

RECURSIVE SumTimes(_)
SumTimes(results) ==
    IF results = <<>> THEN 0
    ELSE results[1].time_seconds + SumTimes(Tail(results))

\* Every SimulationResult the last call handed back
ReturnedResults ==
    IF outcome = None \/ outcome[1].kind = "raise" THEN {}
    ELSE IF outcome[1].fn = "simulate_course" THEN {outcome[1].value}
    ELSE {outcome[1].value[i] : i \in 1..Len(outcome[1].value)}

ZeroTimeCourse == \A i \in 1..Len(course.segments) : course.segments[i].distance_m = 0

\* C2: when the simulated total time is zero (no segments, or only segments
\* with distance_m = 0) simulate_course ends by raising and returns no
\* SimulationResult; a result it does return has a positive total time, so its
\* average speed is a quotient by a non-zero number
C2_ZeroTimeRaises ==
    /\ (outcome # None /\ outcome[1].fn = "simulate_course"
            /\ (ZeroTimeCourse \/ total_time = 0))
          => (total_time = 0 /\ outcome[1].kind = "raise")
    /\ \A r \in ReturnedResults : r.total_time_seconds > 0

\* C2 witness: simulate_course has raised on a course of two zero-length
\* segments
C2_RaisedOnZeroLengthCourse ==
    /\ Raised("simulate_course")
    /\ Len(course.segments) = 2
    /\ ZeroTimeCourse
    /\ seg_i = 2 /\ total_time = 0

\* C3: after each processed segment total_time is the sum of the times of
\* the segment results appended so far, and every returned SimulationResult
\* has total_time_seconds equal to the sum of its segment results' times, one
\* per segment of the course
C3_TotalTimeIsSumOfSegments ==
    /\ op = "simulate" =>
          /\ Len(segment_results) = seg_i
          /\ total_time = SumTimes(segment_results)
    /\ \A r \in ReturnedResults :
          /\ Len(r.segment_results) = Len(course.segments)
          /\ r.total_time_seconds = SumTimes(r.segment_results)

\* C3 witness: simulate_course has returned for a course of two segments that
\* each took time
C3_TwoTimedSegmentsReturned ==
    /\ Returned("simulate_course")
    /\ Len(outcome[1].value.segment_results) = 2
    /\ outcome[1].value.segment_results[1].time_seconds > 0
    /\ outcome[1].value.segment_results[2].time_seconds > 0

\* C4: the list compare_scenarios returns is ascending in total_time_seconds
C4_CompareSortedAscending ==
    Returned("compare_scenarios") =>
        \A i, j \in 1..Len(outcome[1].value) :
            i < j => outcome[1].value[i].total_time_seconds
                         <= outcome[1].value[j].total_time_seconds

\* C4 witness: compare_scenarios has returned three results with three
\* different times, the first of them not the first scenario given
C4_ThreeReordered ==
    /\ Returned("compare_scenarios")
    /\ Len(outcome[1].value) = 3
    /\ outcome[1].value[1].total_time_seconds < outcome[1].value[2].total_time_seconds
    /\ outcome[1].value[2].total_time_seconds < outcome[1].value[3].total_time_seconds
    /\ outcome[1].value[1].scenario_name # outcome[1].args[1].name

\* Result i of a sweep of kind over values: simulated with a fresh rider that
\* is the base rider with values[i] substituted, at the base effort, labelled
\* by the value
SweepResultMatches(kind, values, results, i) ==
    LET r == results[i]
        base == heap[BaseRiderConfig.rider]
        rider == heap[r.rider_config.rider]
    IN  /\ rider = IF kind = "power" THEN [base EXCEPT !.ftp_watts = values[i]]
                   ELSE [base EXCEPT !.weight_kg = values[i]]
        /\ r.rider_config.effort_percentage = BaseRiderConfig.effort_percentage
        /\ r.bike_config = RoadBikeConfig
        /\ r.scenario_name = IF kind = "power" THEN <<"FTP ", values[i], "W">>
                             ELSE <<"Weight ", values[i], "kg">>
        /\ Some(r) = simulate_course(heap, course, r.rider_config, r.bike_config,
                                     conditions, r.scenario_name)

\* C9: analyze_power_impact and analyze_weight_impact return one result per
\* value given, in the order given; result i comes from a rider with the i-th
\* value substituted for ftp_watts (weight_kg) and every other attribute the
\* base rider's, at the base effort_percentage, and is labelled by the value
C9_SweepResultsFollowInput ==
    /\ op \in {"power", "weight"} =>
          /\ Len(sweep[1].results) + Len(sweep[1].todo) = Len(call[1].values)
          /\ \A i \in 1..Len(sweep[1].results) :
                SweepResultMatches(op, call[1].values, sweep[1].results, i)
    /\ \A kind \in {"power", "weight"} :
          Returned(IF kind = "power" THEN "analyze_power_impact"
                   ELSE "analyze_weight_impact") =>
              /\ Len(outcome[1].value) = Len(outcome[1].args)
              /\ \A i \in 1..Len(outcome[1].value) :
                    SweepResultMatches(kind, outcome[1].args, outcome[1].value, i)

\* C9 witness: analyze_power_impact has returned two results whose order is
\* that of the FTP values given and not that of their times
C9_PowerSweepNotByTime ==
    /\ Returned("analyze_power_impact")
    /\ outcome[1].args = <<200, 300>>
    /\ Len(outcome[1].value) = 2
    /\ outcome[1].value[1].total_time_seconds > outcome[1].value[2].total_time_seconds

\* The Rider objects the results of the running sweep refer to
SweepRiders == {sweep[1].results[i].rider_config.rider : i \in 1..Len(sweep[1].results)}

\* A step taken during a sweep leaves every object of the heap as it was
SweepKeepsObjects ==
    op \in {"power", "weight"} =>
        /\ Len(heap') >= Len(heap)
        /\ \A id \in 1..Len(heap) : heap'[id] = heap[id]

\* C10: the sweeps never edit a shared object in place: the caller's Rider
\* objects, base_rider_config.rider among them, keep every field through any
\* sequence of calls; each result of a sweep has a Rider object of its own; and
\* no step of a sweep changes an object that existed before the step
C10_NoSharedObjectEdited ==
    /\ [](/\ SubSeq(heap, 1, Len(ClientRiders)) = ClientRiders
          /\ op \in {"power", "weight"} =>
                /\ BaseRiderConfig.rider \notin SweepRiders
                /\ Cardinality(SweepRiders) = Len(sweep[1].results))
    /\ [][SweepKeepsObjects]_vars

\* C10 witness: analyze_weight_impact has returned two results whose riders
\* are two objects with the two weights given, the base rider as it was
C10_TwoCopiesBaseIntact ==
    /\ Returned("analyze_weight_impact")
    /\ outcome[1].args = <<650, 850>>
    /\ Len(outcome[1].value) = 2
    /\ outcome[1].value[1].rider_config.rider # outcome[1].value[2].rider_config.rider
    /\ heap[outcome[1].value[1].rider_config.rider].weight_kg = 650
    /\ heap[outcome[1].value[2].rider_config.rider].weight_kg = 850
    /\ heap[BaseRiderConfig.rider] = ClientRiders[BaseRiderConfig.rider]

\* What simulate_course gives when called alone on a scenario
SimulatedAlone(scenario) ==
    simulate_course(heap, course, scenario.rider_config, scenario.bike_config,
                    conditions, scenario.name)

\* A step of simulate_course or compare_scenarios leaves the objects it was
\* given as they were, and a step of compare_scenarios that goes on only
\* appends to results
CallKeepsInputs ==
    /\ op \in {"simulate", "compare"} => UNCHANGED <<heap, course, conditions>>
    /\ (op = "compare" /\ op' = "compare") =>
           /\ Len(sweep'[1].results) = Len(sweep[1].results) + 1
           /\ SubSeq(sweep'[1].results, 1, Len(sweep[1].results)) = sweep[1].results

\* The results of simulate_course alone on each scenario of a list
EachAlone(scenarios) == [i \in 1..Len(scenarios) |-> SimulatedAlone(scenarios[i])]

\* C12: simulate_course is a function of (course, rider_config, bike_config,
\* conditions): the run made step by step returns (or raises) what the call on
\* equal inputs gives; no input object is modified; and every result
\* compare_scenarios collects or returns is the result of simulate_course
\* alone on that scenario, whatever the other scenarios and their order
C12_SimulateIsPure ==
    /\ [](/\ (outcome # None /\ outcome[1].fn = "simulate_course") =>
                 LET alone == SimulatedAlone([name |-> call[1].scenario_name,
                                              rider_config |-> call[1].rider_config,
                                              bike_config |-> call[1].bike_config])
                 IN  IF outcome[1].kind = "raise" THEN alone = None
                     ELSE alone = Some(outcome[1].value)
          /\ (op = "compare" /\ sweep[1].results # <<>>) =>
                 /\ Len(sweep[1].results) = Len(call[1].scenarios)
                 /\ Some(sweep[1].results[Len(sweep[1].results)])
                        = SimulatedAlone(call[1].scenarios[Len(call[1].scenarios)])
          /\ Returned("compare_scenarios") =>
                 /\ Len(outcome[1].value) = Len(outcome[1].args)
                 /\ \E alone \in {EachAlone(outcome[1].args)} :
                        \A i \in 1..Len(outcome[1].args) :
                            \E j \in 1..Len(outcome[1].value) :
                                Some(outcome[1].value[j]) = alone[i])
    /\ [][CallKeepsInputs]_vars

\* C12 witness: compare_scenarios has returned two results for two different
\* scenarios, the second one given coming first
C12_TwoScenariosSwapped ==
    /\ Returned("compare_scenarios")
    /\ Len(outcome[1].args) = 2
    /\ Len(outcome[1].value) = 2
    /\ outcome[1].args[1].name # outcome[1].args[2].name
    /\ outcome[1].value[1].scenario_name = outcome[1].args[2].name
    /\ outcome[1].value[1].total_time_seconds > 0

\* The SegmentResult simulate_course owes for segment i (1-based) of the
\* course: the speed is solved anew from ftp * effort
OwedSegmentResult(i, rider_config, bike_config, sr) ==
    LET segment == course.segments[i]
        rider == heap[rider_config.rider]
        power == rider.ftp_watts * rider_config.effort_percentage * 10
        speed == calculate_speed_from_power(rider, bike_config.bike, segment, power,
                                            conditions, segment_wind(segment, conditions))
    IN  /\ sr.segment_index = i - 1
        /\ sr.distance_m = segment.distance_m
        /\ sr.elevation_gain_m = segment.elevation_gain_m
        /\ sr.gradient_percent = segment.gradient_percent
        /\ sr.average_speed_kmh = (speed * 36) \div 100
        /\ sr.power_watts = power

\* C19: simulate_course appends one SegmentResult per segment in course order:
\* segment_index is the 0-based position, distance, elevation gain and gradient
\* are the segment's, average_speed_kmh is 3.6 times the solved speed and
\* power_watts is ftp * effort on every segment, descents included
C19_SegmentResultsFollowCourse ==
    /\ op = "simulate" =>
          /\ Len(segment_results) = seg_i
          /\ \A i \in 1..seg_i :
                OwedSegmentResult(i, call[1].rider_config, call[1].bike_config,
                                  segment_results[i])
    /\ Returned("simulate_course") =>
          /\ Len(outcome[1].value.segment_results) = Len(course.segments)
          /\ \A i \in 1..Len(course.segments) :
                OwedSegmentResult(i, outcome[1].value.rider_config,
                                  outcome[1].value.bike_config,
                                  outcome[1].value.segment_results[i])

\* C19 witness: the base rider at 90 % of 250 W has been simulated over the
\* climb and then the descent; both segment results carry 225 W
C19_DescentAtEffortPower ==
    /\ Returned("simulate_course")
    /\ outcome[1].value.rider_config.effort_percentage = 90
    /\ Len(outcome[1].value.segment_results) = 2
    /\ outcome[1].value.segment_results[1].gradient_percent > 0
    /\ outcome[1].value.segment_results[2].gradient_percent < 0
    /\ outcome[1].value.segment_results[2].segment_index = 1
    /\ \A i \in 1..2 : outcome[1].value.segment_results[i].power_watts = 225000

RECURSIVE SumPowerTimes(_)
SumPowerTimes(results) ==
    IF results = <<>> THEN 0
    ELSE MulDiv(results[1].power_watts, results[1].time_seconds, 1000)
             + SumPowerTimes(Tail(results))

\* C20: a result simulate_course returns with a positive total time has
\* average_speed_kmh = course.total_distance_km * 3600 / total_time (the
\* course's own total, not the sum of its segments), average_power_watts =
\* sum(power * time) / total_time over its segments, and total_distance_km
\* equal to course.total_distance_km
C20_AveragesFromTotals ==
    (Returned("simulate_course") /\ outcome[1].value.total_time_seconds > 0) =>
        LET r == outcome[1].value
        IN  /\ r.average_speed_kmh
                   = MulDivWide(course.total_distance_km, 360000, r.total_time_seconds)
            /\ r.average_power_watts
                   = MulDivWide(SumPowerTimes(r.segment_results), 1000,
                                r.total_time_seconds)
            /\ r.total_distance_km = course.total_distance_km

\* C20 witness: a result for the course whose total_distance_km is 8 m more
\* than its two segments add up to
C20_ReturnedForGappedCourse ==
    /\ Returned("simulate_course")
    /\ course = GappedCourse
    /\ outcome[1].value.total_time_seconds > 0
    /\ outcome[1].value.total_distance_km = 1508
    /\ outcome[1].value.total_distance_km # SumDistance(course.segments)
    /\ outcome[1].value.average_speed_kmh
           # MulDivWide(SumDistance(course.segments), 360000,
                        outcome[1].value.total_time_seconds)

-----------------------------------------------------------------------------
(* Properties of the track ingestion, checked under ParserSpec *)

ParserReturned == parser.outcome # None /\ parser.outcome[1].kind = "return"
ParserRaised == parser.outcome # None /\ parser.outcome[1].kind = "raise"

\* The track parse_gpx_file reads has two points or more, and every two
\* consecutive points of it are closer than min_segment_distance_m
AllPairsTooClose ==
    /\ parser.file # None
    /\ parse_rejects(parser.file[1]) = None
    /\ \A k \in 1..(Len(parser.file[1].tracks[1]) - 1) :
          haversine(parser.file[1].tracks[1][k], parser.file[1].tracks[1][k + 1])
              < parser.min_segment_distance_m

\* C15: a Course that parse_gpx_file or create_sample_course returns has at
\* least one segment; when every consecutive pair of points is closer than
\* min_segment_distance_m, parse_gpx_file ends by raising
C15_CourseHasSegments ==
    /\ ParserReturned => Len(parser.outcome[1].value.segments) >= 1
    /\ (parser.pc = "done" /\ parser.fn = "parse_gpx_file" /\ AllPairsTooClose)
          => (parser.segments = <<>> /\ ParserRaised)

\* C15 witness: parse_gpx_file has raised on a track of three points 4 m
\* apart, after its loop kept no segment
C15_RaisedOnCloseTrack ==
    /\ parser.pc = "done" /\ parser.fn = "parse_gpx_file"
    /\ AllPairsTooClose
    /\ Len(parser.course_points) = 3
    /\ parser.i = 2
    /\ parser.min_segment_distance_m = DefaultMinSegmentDistance
    /\ ParserRaised
    /\ parser.outcome[1].type = "ValueError"

\* C16: in every Course the track ingestion returns, the end_point of segment
\* k is the start_point of segment k + 1
C16_SegmentsContiguous ==
    ParserReturned =>
        \A k \in 1..(Len(parser.outcome[1].value.segments) - 1) :
            parser.outcome[1].value.segments[k].end_point
                = parser.outcome[1].value.segments[k + 1].start_point

-----------------------------------------------------------------------------
(* Properties of the command line, checked under CliSpec *)

\* What the arguments of the run make fail: the loading (a value of the range
\* that is no number, a file parse_gpx_file rejects, a track with no two
\* points 10 m apart), the construction of the Rider, the plotting
LoadFails(argv) ==
    \/ /\ argv.command \in {"compare-weight", "compare-power"}
       /\ \E k \in 1..Len(argv.range) : argv.range[k] = None
    \/ /\ argv.command # "sample"
       /\ \/ parse_rejects(argv.gpx_file) # None
          \/ \A k \in 1..(Len(argv.gpx_file.tracks[1]) - 1) :
                Abs(argv.gpx_file.tracks[1][k + 1].latitude
                        - argv.gpx_file.tracks[1][k].latitude) < 10

RunFails(argv) == argv.weight <= 0

PlotFails(argv) == argv.plot /\ ~argv.disk_ok

ShownResults == {k \in 1..Len(cli.stdout) : cli.stdout[k].kind \in {"results", "comparison"}}

CliReportsOnce ==
    /\ cli.escaped = None
    /\ cli.pc \notin {"off", "exited"} => (cli.stderr = <<>> /\ cli.exit_status = None)
    /\ cli.pc = "exited" =>
          LET argv == cli.argv[1]
              before_display == LoadFails(argv) \/ RunFails(argv)
          IN  IF before_display \/ PlotFails(argv)
              THEN /\ cli.exit_status = Some(1)
                   /\ Len(cli.stderr) = 1
                   /\ cli.stderr[1][1] = "Error: "
                   /\ IF before_display THEN ShownResults = {}
                      ELSE ShownResults = {Len(cli.stdout)}
              ELSE /\ cli.exit_status = Some(0)
                   /\ cli.stderr = <<>>
                   /\ ShownResults # {}

CliStopsAtError == cli.stderr # <<>> => cli' = cli

\* C17: a command that meets a raised condition while loading, simulating or
\* plotting writes one "Error: ..." message to stderr and exits with status 1;
\* no exception leaves the command, nothing is written after the message, and
\* results are on stdout only when the failure came after they were displayed
C17_ErrorsReportedOnce == []CliReportsOnce /\ [][CliStopsAtError]_vars

\* C17 witness: simulate has shown its results, failed to write the plots and
\* exited with status 1 after one message
C17_PlotFailedAfterResults ==
    /\ cli.pc = "exited"
    /\ cli.argv[1].command = "simulate"
    /\ PlotFails(cli.argv[1])
    /\ cli.exit_status = Some(1)
    /\ Len(cli.stderr) = 1
    /\ Len(cli.stdout) = 2 /\ cli.stdout[2].kind = "results"

\* C18: in a comparison table every time delta is against the fastest result
\* of the list: no delta is negative and a fastest result shows 0
C18_DeltasAgainstFastest ==
    \A b \in 1..Len(cli.stdout) :
        cli.stdout[b].kind = "comparison" =>
            \A k \in 1..Len(cli.stdout[b].rows) :
                /\ cli.stdout[b].rows[k].time_diff >= 0
                /\ cli.stdout[b].rows[k].seconds >= 0
                /\ (\A j \in 1..Len(cli.results[1]) :
                        cli.results[1][k].total_time_seconds
                            <= cli.results[1][j].total_time_seconds)
                      => cli.stdout[b].rows[k].time_diff = 0

-----------------------------------------------------------------------------
(* Further properties of the physics, checked under PhysicsSpec *)

\* Segment lengths (m) the returned call is repeated for
ProbeDistances == {0, 1, 1000}

TimeAtDistance(d) ==
    calculate_time_for_segment(inp.rider, inp.bike, [inp.segment EXCEPT !.distance_m = d],
                               inp.power_watts, inp.conditions, inp.wind_speed_ms)

\* C21: the speed calculate_time_for_segment divides by is at least 0.1 m/s,
\* so 0 <= time_seconds <= 10 * distance_m, time_seconds is 0 exactly when
\* distance_m is 0, and the segment's average_speed_kmh is at least 0.36
C21_TimeWithinTenfoldDistance ==
    pmode = "returned" =>
        /\ speed_guess >= MinSpeed
        /\ \A d \in ProbeDistances :
              \E ts \in {TimeAtDistance(d)} :
                  /\ ts[2] = speed_guess
                  /\ ts[1] >= 0 /\ ts[1] <= 10000 * d
                  /\ (ts[1] = 0) <=> (d = 0)
                  /\ (ts[2] * 36) \div 100 >= 36

\* C21 witness: a call has returned the floor speed of 0.1 m/s, and its 1 km
\* segment takes 10 000 s
C21_FloorGivesTenfoldTime ==
    /\ pmode = "returned"
    /\ speed_guess = MinSpeed
    /\ inp.segment.distance_m = 1000
    /\ TimeAtDistance(1000)[1] = 10000000

-----------------------------------------------------------------------------
(* Further properties of the simulator, checked under Spec *)

\* The wind component segment i (1-based) of the course is owed: 0 without
\* wind or without a bearing, else what estimate_wind_component gives
OwedWind(i) ==
    IF conditions.wind = None \/ course.segments[i].bearing_degrees = None THEN 0
    ELSE estimate_wind_component(course.segments[i], conditions.wind,
                                 course.segments[i].bearing_degrees[1])

\* The time and speed segment i gets with wind component w
TimedWithWind(i, rider_config, bike_config, w) ==
    LET rider == heap[rider_config.rider]
    IN  calculate_time_for_segment(
            rider, bike_config.bike, course.segments[i],
            effective_power_watts(rider.ftp_watts, rider_config.effort_percentage),
            conditions, w)

\* C22: the wind component simulate_course uses for a segment is 0 when
\* conditions.wind is absent or the segment has no bearing, and is the
\* estimate_wind_component value otherwise, a bearing of 0 degrees included;
\* estimate_wind_component gives 0 when it is handed no wind
C22_WindOnlyWithWindAndBearing ==
    Returned("simulate_course") =>
        \A i \in 1..Len(course.segments) :
            \E ts \in {TimedWithWind(i, outcome[1].value.rider_config,
                                      outcome[1].value.bike_config, OwedWind(i))} :
                /\ outcome[1].value.segment_results[i].time_seconds = ts[1]
                /\ outcome[1].value.segment_results[i].average_speed_kmh
                       = (ts[2] * 36) \div 100
                /\ estimate_wind_component(course.segments[i], None, 0) = 0

\* C22 witness: with wind from the north, a segment due north (bearing 0) has
\* been simulated against a headwind: it is slower than without wind
C22_NorthboundMeetsWind ==
    /\ Returned("simulate_course")
    /\ conditions.wind # None
    /\ Len(course.segments) >= 1
    /\ course.segments[1].bearing_degrees = Some(0)
    /\ OwedWind(1) > 0
    /\ outcome[1].value.segment_results[1].time_seconds
           > TimedWithWind(1, outcome[1].value.rider_config,
                           outcome[1].value.bike_config, 0)[1]

\* Humidities (percent) the returned call is repeated for
ProbeHumidities == {0, 100}

SimulatedAtHumidity(h) ==
    simulate_course(heap, course, outcome[1].value.rider_config,
                    outcome[1].value.bike_config,
                    [conditions EXCEPT !.humidity_percent = h],
                    outcome[1].value.scenario_name)

-----------------------------------------------------------------------------
(* Properties of the time format, checked under FormatSpec *)

\* The number a sequence of decimal digits writes
RECURSIVE NumberOf(_)
NumberOf(digits) ==
    IF digits = <<>> THEN 0
    ELSE 10 * NumberOf(SubSeq(digits, 1, Len(digits) - 1)) + digits[Len(digits)]

\* C24: total_time_formatted writes hours = floor(t / 3600), minutes in 0..59
\* and seconds in 0..59 with hours * 3600 + minutes * 60 + seconds = floor(t),
\* each field in at least two digits
C24_TimeFormatIsHMS ==
    shown.text # None =>
        LET hours == NumberOf(shown.text[1][1])
            minutes == NumberOf(shown.text[1][2])
            seconds == NumberOf(shown.text[1][3])
        IN  /\ \A k \in 1..3 : /\ Len(shown.text[1][k]) >= 2
                                /\ \A d \in 1..Len(shown.text[1][k]) :
                                      shown.text[1][k][d] \in 0..9
            /\ hours = (shown.total_time_seconds \div 1000) \div 3600
            /\ minutes \in 0..59 /\ Len(shown.text[1][2]) = 2
            /\ seconds \in 0..59 /\ Len(shown.text[1][3]) = 2
            /\ hours * 3600 + minutes * 60 + seconds = shown.total_time_seconds \div 1000

\* C24 witness: 3661.5 s has been written as 01:01:01
C24_HourMinuteSecond ==
    /\ shown.total_time_seconds = 3661500
    /\ shown.text = Some(<<<<0, 1>>, <<0, 1>>, <<0, 1>>>>)

-----------------------------------------------------------------------------
(* The solver on a descent where no power is required *)

\* calculate_power_required is clamped to 0 at s and at s + 0.01
ClampedAt(a, s) == power_at(a, s) = 0 /\ power_at(a, s + delta_speed) = 0

\* The running call is about to run a loop body at a clamped iterate
AtClampedIterate ==
    /\ pmode = "solving"
    /\ iterations < MaxIterations
    /\ ClampedAt(inp, speed_guess)

\* With the other arguments kept, every power gives 10.0 m/s
TenMetresPerSecondAtAnyPower ==
    \A p \in PhysicsPowers :
        newton_loop([inp EXCEPT !.power_watts = p], InitialGuess, 0)[1] = InitialGuess

\* C25 (as claimed): at an iterate where the power required is clamped to 0
\* at s and at s + 0.01 the solver stops on the degenerate-derivative exit
\* and returns s unchanged; clamped at the initial guess, it returns 10.0 m/s
\* whatever power_watts is.
C25_ClampedStopsDegenerate ==
    /\ [](ClampedAt(inp, InitialGuess) => TenMetresPerSecondAtAnyPower)
    /\ [][AtClampedIterate =>
            /\ pmode' = "returned"
            /\ speed_guess' = speed_guess
            /\ exit_kind' = "degenerate"]_vars

\* C25 (amended): at such an iterate the solver stops and returns s
\* unchanged, on the convergence exit when power_watts is under 1 W (the
\* difference 0 - power_watts is then within the stop criterion, which is
\* tested first) and on the degenerate-derivative exit otherwise; clamped at
\* the initial guess, it returns 10.0 m/s whatever power_watts is.
C25_ClampedStopsUnchanged ==
    /\ [](ClampedAt(inp, InitialGuess) => TenMetresPerSecondAtAnyPower)
    /\ [][AtClampedIterate =>
            /\ pmode' = "returned"
            /\ speed_guess' = speed_guess
            /\ exit_kind' = IF Abs(inp.power_watts) < 1000 THEN "converged"
                            ELSE "degenerate"]_vars

\* C25 witness: a 300 W call on a descent returned 10.0 m/s from its first
\* loop body by the degenerate-derivative exit
C25_DescentReturnsInitialGuess ==
    /\ pmode = "returned"
    /\ exit_kind = "degenerate"
    /\ iterations = 0
    /\ speed_guess = InitialGuess
    /\ inp.power_watts = 300000
    /\ inp.segment.gradient_percent < 0
    /\ ClampedAt(inp, InitialGuess)

-----------------------------------------------------------------------------
(* The range of the wind component *)

-----------------------------------------------------------------------------
(* The average power of a result *)

\* ftp * effort of the rider a result was simulated for, in mW
ResultPower(r) ==
    heap[r.rider_config.rider].ftp_watts * r.rider_config.effort_percentage * 10

\* C27: every result simulate_course returns, to its caller or to
\* compare_scenarios and the analyze_* sweeps, has a total time above 0 (the
\* 'else 0' branch is not taken) and an average_power_watts equal to the
\* rider's ftp * effort, here to within the 2 mW that flooring the
\* per-segment products and the quotient can lose.
C27_AveragePowerIsEffortPower ==
    \A r \in ReturnedResults :
        /\ r.total_time_seconds > 0
        /\ r.average_power_watts <= ResultPower(r)
        /\ r.average_power_watts >= ResultPower(r) - 2

\* C27 witness: compare_scenarios returned results for riders of 225 W and
\* of 300 W over a course of two segments ridden in different times
C27_TwoPowersOverTwoSegments ==
    /\ Returned("compare_scenarios")
    /\ Len(course.segments) = 2
    /\ \E r1, r2 \in ReturnedResults :
          /\ ResultPower(r1) = 225000
          /\ ResultPower(r2) = 300000
          /\ r1.average_power_watts >= 224998
          /\ r2.average_power_watts >= 299998
          /\ r1.segment_results[1].time_seconds # r1.segment_results[2].time_seconds
          /\ r1.segment_results[1].time_seconds > 0
          /\ r1.segment_results[2].time_seconds > 0

-----------------------------------------------------------------------------
(* The total distance of a parsed course *)

\* C28 (as claimed): in every Course parse_gpx_file returns,
\* total_distance_km (here in m) is the sum of the distance_m of its segments.
C28_TotalDistanceIsSumOfSegments ==
    (ParserReturned /\ parser.fn = "parse_gpx_file") =>
        parser.outcome[1].value.total_distance_km
            = SumDistance(parser.outcome[1].value.segments)

-----------------------------------------------------------------------------
(* compare_scenarios rearranges, and does no more *)

\* The ways of arranging n things: f[i] is the place in the input of the
\* i-th thing of the output
Arrangements(n) ==
    {f \in [1..n -> 1..n] : \A a, b \in 1..n : a # b => f[a] # f[b]}

\* results is scenarios' results arranged by f, equal times in input order
ArrangedBy(f, scenarios, results) ==
    /\ \A i \in 1..Len(results) :
          /\ results[i].scenario_name = scenarios[f[i]].name
          /\ Some(results[i])
                = simulate_course(heap, course, scenarios[f[i]].rider_config,
                                  scenarios[f[i]].bike_config, conditions,
                                  scenarios[f[i]].name)
    /\ \A i, j \in 1..Len(results) :
          (i < j /\ results[i].total_time_seconds = results[j].total_time_seconds)
              => f[i] < f[j]

\* C29: the list compare_scenarios returns is as long as the list of
\* scenarios given and is an arrangement of their results, one for each
\* scenario under the scenario's name, with results of equal total time in
\* the order their scenarios were given.
C29_CompareReturnsStableArrangement ==
    Returned("compare_scenarios") =>
        /\ Len(outcome[1].value) = Len(outcome[1].args)
        /\ \E f \in Arrangements(Len(outcome[1].args)) :
              ArrangedBy(f, outcome[1].args, outcome[1].value)

\* C29 witness: of the scenarios twin, base and strong, given in that order,
\* strong is returned first and twin, of the same total time as base, stays
\* ahead of base
C29_TwinStaysAheadOfBase ==
    /\ Returned("compare_scenarios")
    /\ Len(outcome[1].args) = 3
    /\ outcome[1].args[1].name = "twin"
    /\ outcome[1].args[2].name = "base"
    /\ outcome[1].args[3].name = "strong"
    /\ outcome[1].value[1].scenario_name = "strong"
    /\ outcome[1].value[2].scenario_name = "twin"
    /\ outcome[1].value[3].scenario_name = "base"
    /\ outcome[1].value[2].total_time_seconds = outcome[1].value[3].total_time_seconds

-----------------------------------------------------------------------------
(* The tolerance argument of the solver *)

\* What calculate_speed_from_power does from its entry when given tolerance
ReturnAtTolerance(tolerance) ==
    newton_loop([inp EXCEPT !.tolerance = tolerance], InitialGuess, 0)

\* The running call is about to run a loop body
AtLoopBody == pmode = "solving" /\ iterations < MaxIterations

====
